---- MODULE Spec2Model ----
(***************************************************************************)
(* Memory and synchronization core of the flanergide backend:              *)
(*   - VectorStore (services/vector_store.py): the event store             *)
(*   - sync_pull / sync_push (api/routes/sync.py): the sync coordinator    *)
(*   - StateManager (services/state_manager.py): mood, digest, post cache  *)
(*   - LogAccumulator, CommentaryService, SummarizationService: the daily  *)
(*     logs, the gatherers and the generation over them                    *)
(*   - upload_logs / search_logs (api/routes/logs.py): the log routes      *)
(*   - RateLimitStore (api/middleware/security.py): the request limiter    *)
(*   - run_blog_scraper_task (main.py): the periodic scraper               *)
(* SpecSync drives the event store through push and pull, SpecCache drives *)
(* the blog-cache merge as whole calls (SpecCacheFaults with its failures),*)
(* SpecFiles runs the file writes step by step with readers and crashes in *)
(* between, SpecReads the reads of the state files, SpecRace two merges at *)
(* once, SpecMemory the memory routes (SpecOutage with a failing index),   *)
(* SpecGather the gatherers and SpecGenerate the generation. SpecClient    *)
(* follows one client's cursor over pushes and pulls, SpecRate drives the  *)
(* limiter, SpecStartup the construction of the state manager over files   *)
(* that exist or not, SpecStamps the timestamps of stored events, SpecLogs *)
(* the log routes and SpecTask the runs of the periodic scraper.           *)
(***************************************************************************)
EXTENDS Integers, Sequences, FiniteSets, TLC

VARIABLES
    collection,     \* Chroma collection "events": sequence of stored documents
    uuidCount,      \* number of ids handed out by uuid.uuid4() that were stored
    clock,          \* int(time.time()) of the server
    syncResp,       \* response of the last sync or memory request
    storeBefore,    \* history: the collection before that request
    moodFile,       \* current_mood.txt
    thoughtsFile,   \* recent_thoughts.txt: [text, mtime]
    blogCacheFile,  \* blog_cache.json: sequence of posts
    lastCall,       \* history: the last StateManager call and what it did
    dir,            \* temp files of the state directory: [name, written]
    writer,         \* the write in progress and the statement it has reached
    torn,           \* the state files whose bytes are not a whole document
    seen,           \* what the last reader of a state file found
    calls,          \* the update_blog_cache call of each caller
    analysis,       \* the analysis directory: date directories and daily logs
    limiter,        \* the rate limit store, its time and its last answer
    client          \* a syncing client: its cursor and the ids it has received

vars == <<collection, uuidCount, clock, syncResp, storeBefore,
          moodFile, thoughtsFile, blogCacheFile, lastCall,
          dir, writer, torn, seen, calls, analysis, limiter, client>>

syncVars  == <<collection, uuidCount, syncResp, storeBefore>>
stateVars == <<moodFile, thoughtsFile, blogCacheFile, lastCall>>
fileVars  == <<dir, writer, torn, seen>>
raceVars  == <<calls>>
logVars   == <<analysis>>
rateVars  == <<limiter>>
clientVars == <<client>>

(***************************************************************************)
(* Bounds of the model.                                                    *)
(***************************************************************************)
MaxTs      == 2     \* client timestamps range over 0..MaxTs
MaxLoose   == 2     \* events sent in ordinary push batches
MaxBatch   == 2     \* length of an ordinary post list
BulkExtra  == 1     \* a bulk batch exceeds the limit of 50 by this many
MaxUrl     == 2     \* urls of ordinary posts range over 1..MaxUrl
MaxScrape  == 1     \* scraped_at of ordinary posts ranges over 0..MaxScrape
MaxClock   == 2     \* the server clock runs over 1..MaxClock
MaxTmp     == 2     \* temp files the state directory can hold
MaxStored  == 2     \* events stored one by one through memory.store
MaxLogBatch == 2    \* log entries of one upload
RequestsPerMinute == 2  \* requests_per_minute of the rate limit store
RateStep == 30      \* seconds between two readings of time.time()
MaxRateTime == 90   \* the last reading of time.time()
MaxUploaded == 3    \* log entries sent in a run
DumpChunks == 2     \* writes in which json.dump hands over a document
MaxLogLines == 2    \* lines a daily log can hold
MaxGatherDays == 3  \* the gatherers are asked for 0..MaxGatherDays days

(***************************************************************************)
(* Program constants.                                                      *)
(***************************************************************************)
PullLimit     == 50    \* sync_pull: recent(limit=50, ...)
ErrorMaxLen   == 100   \* sync_push: str(e)[:100]
MaxBatchItems == 100   \* SyncPushRequest.events max_items
RecentDefault == 20    \* get_recent: the limit served for one out of range
RecentMax     == 100   \* get_recent: the largest limit served as asked
CacheCap      == 50    \* update_blog_cache: all_posts[:50]
DigestPosts   == 5     \* update_blog_cache: all_posts[:5]
BodyPreview   == 200   \* update_blog_cache: body[:200]
WeekDays      == 7     \* timedelta(weeks=1), in days
WeekBack      == 7     \* generate_weekly_summary: timedelta(days=7)

None == <<>>            \* Python None

\* The coroutines that call update_blog_cache: run_blog_scraper_task and
\* trigger_blog_scrape.
Callers == {"task", "trigger"}
Min(a, b) == IF a <= b THEN a ELSE b

\* The sum of a sequence of numbers of at most MaxClock + 2 days.
RECURSIVE SumSeq(_)
SumSeq(q) == IF q = <<>> THEN 0 ELSE q[1] + SumSeq(Tail(q))

\* d.get(key, default) of a dict d
Get(d, key, default) == IF key \in DOMAIN d THEN d[key] ELSE default

(***************************************************************************)
(* list.sort(key=lambda x: x[field], reverse=True): a stable sort, equal   *)
(* keys keep their original order.                                         *)
(***************************************************************************)
Max(S) == CHOOSE x \in S : \A y \in S : y <= x

\* The elements of s whose key is in keys, largest key first, those of one key
\* in their order in s.
RECURSIVE SortKeys(_, _, _)
SortKeys(s, field, keys) ==
    IF keys = {} THEN <<>>
    ELSE LET m == Max(keys)
         IN  SelectSeq(s, LAMBDA x : x[field] = m)
               \o SortKeys(s, field, keys \ {m})

SortDesc(s, field) == SortKeys(s, field, {s[i][field] : i \in 1..Len(s)})

\* s[offset:offset+limit] for offset, limit >= 0
Slice(s, offset, limit) == SubSeq(s, offset + 1, Min(Len(s), offset + limit))

(***************************************************************************)
(* VectorStore                                                             *)
(***************************************************************************)
Uuid(n) == <<n>>

\* An exception: its class and the length of str(e).
NoError       == [kind |-> "None", len |-> 0]
ValueError    == [kind |-> "ValueError", len |-> 22]   \* "Event must have 'type'"
IndexError(n) == [kind |-> "ChromaError", len |-> n]

\* not event.get("type")
TypeMissingOnlyAbsent(event) == "type" \notin DOMAIN event

TypeMissing(event) == Get(event, "type", "") = ""

\* VectorStore._event_to_text(event): the text that is embedded, as the
\* template chosen by the type and the values the template shows.
EventToText(event) ==
    LET event_type == Get(event, "type", "unknown")
        data == Get(event, "data", <<>>)
    IN  CASE event_type = "app_launch" ->
               [form |-> "App launch", app |-> Get(data, "app", "unknown"),
                duration |-> Get(data, "duration_seconds", 0)]
          [] event_type = "notification" ->
               [form |-> "Notification from",
                source |-> Get(data, "source", "unknown"),
                subject |-> Get(data, "subject", "")]
          [] event_type = "minigame_complete" ->
               [form |-> "Mini-game",
                game_type |-> Get(data, "game_type", "unknown"),
                status |-> IF Get(data, "success", FALSE)
                           THEN "completed successfully" ELSE "failed"]
          [] event_type = "user_interaction" ->
               [form |-> "User interaction",
                action |-> Get(data, "action", "unknown")]
          [] event_type = "avatar_mood_change" ->
               [form |-> "Avatar mood changed to",
                mood |-> Get(data, "mood", "unknown")]
          [] OTHER -> [form |-> event_type, json |-> data]

\* The document, metadata and id stored for an event.
Document(eid, event, device_id, now) ==
    [id |-> eid, type |-> Get(event, "type", "unknown"), device_id |-> device_id,
     timestamp |-> Get(event, "timestamp", now), text |-> EventToText(event)]

\* VectorStore.insert(event, device_id) when count ids were stored before;
\* addRaises: collection.add raises an error whose message has addRaises
\* characters (0: it does not raise). Gives [ok, raised, id, added], added
\* being the documents the call appends to the collection.
InsertStoresOnError(count, event, device_id, now, addRaises) ==
    LET eid == Uuid(count + 1)
        doc == Document(eid, event, device_id, now)
    IN  IF TypeMissing(event)
        THEN [ok |-> FALSE, raised |-> ValueError, id |-> None, added |-> <<>>]
        ELSE IF addRaises > 0
        THEN [ok |-> FALSE, raised |-> IndexError(addRaises), id |-> None,
              added |-> <<doc>>]
        ELSE [ok |-> TRUE, raised |-> NoError, id |-> eid, added |-> <<doc>>]

InsertReusesId(count, event, device_id, now, addRaises) ==
    LET eid == Uuid(1)
        doc == Document(eid, event, device_id, now)
    IN  IF TypeMissing(event)
        THEN [ok |-> FALSE, raised |-> ValueError, id |-> None, added |-> <<>>]
        ELSE IF addRaises > 0
        THEN [ok |-> FALSE, raised |-> IndexError(addRaises), id |-> None,
              added |-> <<>>]
        ELSE [ok |-> TRUE, raised |-> NoError, id |-> eid, added |-> <<doc>>]

InsertKeepsClientId(count, event, device_id, now, addRaises) ==
    LET eid == Get(event, "id", Uuid(count + 1))
        doc == Document(eid, event, device_id, now)
    IN  IF TypeMissing(event)
        THEN [ok |-> FALSE, raised |-> ValueError, id |-> None, added |-> <<>>]
        ELSE IF addRaises > 0
        THEN [ok |-> FALSE, raised |-> IndexError(addRaises), id |-> None,
              added |-> <<>>]
        ELSE [ok |-> TRUE, raised |-> NoError, id |-> eid, added |-> <<doc>>]

Insert(count, event, device_id, now, addRaises) ==
    LET eid == Uuid(count + 1)
        doc == Document(eid, event, device_id, now)
    IN  IF TypeMissing(event)
        THEN [ok |-> FALSE, raised |-> ValueError, id |-> None, added |-> <<>>]
        ELSE IF addRaises > 0
        THEN [ok |-> FALSE, raised |-> IndexError(addRaises), id |-> None,
              added |-> <<>>]
        ELSE [ok |-> TRUE, raised |-> NoError, id |-> eid, added |-> <<doc>>]

\* The concatenation of the sequences ss[1], ss[2], ..., each of at most one
\* element (insert appends at most one document).
Flatten(ss) ==
    LET full == SelectSeq(ss, LAMBDA x : x # <<>>)
    IN  [k \in 1..Len(full) |-> full[k][1]]

\* collection.get(where={"type": {"$eq": type_filter}}), type_filter None: all
GetWhere(coll, type_filter) ==
    IF type_filter = None \/ type_filter = <<"">> THEN coll
    ELSE SelectSeq(coll, LAMBDA d : <<d.type>> = type_filter)

\* The event recent() builds from a stored document's id and metadata.
RecentEvent(d) ==
    [id |-> d.id, type |-> d.type, timestamp |-> d.timestamp,
     device_id |-> d.device_id]

\* VectorStore.recent(limit, offset, type_filter): [events, total]
RecentCountsPage(coll, limit, offset, type_filter) ==
    LET found == SortDesc(GetWhere(coll, type_filter), "timestamp")
        events == [i \in 1..Len(found) |-> RecentEvent(found[i])]
    IN  [events |-> Slice(events, offset, limit),
         total |-> Len(Slice(events, offset, limit))]

Recent(coll, limit, offset, type_filter) ==
    LET found == SortDesc(GetWhere(coll, type_filter), "timestamp")
        events == [i \in 1..Len(found) |-> RecentEvent(found[i])]
    IN  [events |-> Slice(events, offset, limit), total |-> Len(events)]

\* VectorStore._build_where_filter(filters): the conditions of the where
\* clause, <<>> for None. A filter value is <<>> (None) or <<value>>.
BuildWhereFilter(filters) ==
    (IF filters.type # <<>> /\ filters.type[1] # ""
     THEN <<[field |-> "type", op |-> "$eq", value |-> filters.type[1]]>>
     ELSE <<>>)
    \o (IF filters.timestamp_min # <<>> /\ filters.timestamp_min[1] # 0
        THEN <<[field |-> "timestamp", op |-> "$gte",
                value |-> filters.timestamp_min[1]]>>
        ELSE <<>>)
    \o (IF filters.timestamp_max # <<>> /\ filters.timestamp_max[1] # 0
        THEN <<[field |-> "timestamp", op |-> "$lte",
                value |-> filters.timestamp_max[1]]>>
        ELSE <<>>)

\* A stored document satisfies every condition of a where clause.
Matches(d, where) ==
    \A k \in 1..Len(where) :
        CASE where[k].op = "$eq" -> d.type = where[k].value
          [] where[k].op = "$gte" -> d.timestamp >= where[k].value
          [] where[k].op = "$lte" -> d.timestamp <= where[k].value

\* Cosine distance between the embeddings of a query and of a stored text:
\* 0 for the same text, 1 for texts of one template, 2 for unrelated texts.
Distance(query, text) ==
    IF query = text THEN 0
    ELSE IF query.form = text.form THEN 1 ELSE 2

\* collection.query(query_texts=[query], n_results=limit, where=where): the
\* nearest documents first, each with its distance.
Query(coll, query, limit, where) ==
    LET hits == SelectSeq(coll, LAMBDA d : Matches(d, where))
        scored == [i \in 1..Len(hits) |->
                     [id |-> hits[i].id, type |-> hits[i].type,
                      document |-> hits[i].text,
                      timestamp |-> hits[i].timestamp,
                      similarity_score |-> 1 - Distance(query, hits[i].text)]]
    IN  Slice(SortDesc(scored, "similarity_score"), 0, limit)

\* json.loads(document) succeeds on a JSON value; a rendered text always
\* starts with its template.
IsJson(document) == "form" \notin DOMAIN document

\* VectorStore.search(query, limit, filters); filters is <<>> (None) or
\* <<[type, timestamp_min, timestamp_max]>>. Gives [ok, raised, selected,
\* output]: selected is what the index returned.
Search(coll, query, limit, filters) ==
    LET where == IF filters # <<>> THEN BuildWhereFilter(filters[1]) ELSE <<>>
        selected == Query(coll, query, limit, where)
    IN  IF \E i \in 1..Len(selected) : ~IsJson(selected[i].document)
        THEN [ok |-> FALSE, raised |-> "JSONDecodeError",
              selected |-> selected, output |-> <<>>]
        ELSE [ok |-> TRUE, raised |-> "None", selected |-> selected,
              output |-> [i \in 1..Len(selected) |->
                            [id |-> selected[i].id, type |-> selected[i].type,
                             data |-> selected[i].document,
                             timestamp |-> selected[i].timestamp,
                             similarity_score |->
                                 selected[i].similarity_score]]]

\* VectorStore.delete(event_id): [found, collection]
DeleteByType(coll, event_id) ==
    LET found == \E i \in 1..Len(coll) : coll[i].id = event_id
        type == (CHOOSE d \in {coll[i] : i \in 1..Len(coll)} : d.id = event_id).type
    IN  [found |-> found,
         collection |-> IF found THEN SelectSeq(coll, LAMBDA d : d.type # type)
                        ELSE coll]

Delete(coll, event_id) ==
    LET found == \E i \in 1..Len(coll) : coll[i].id = event_id
    IN  [found |-> found,
         collection |-> IF found THEN SelectSeq(coll, LAMBDA d : d.id # event_id)
                        ELSE coll]

(***************************************************************************)
(* StateManager: reads                                                     *)
(***************************************************************************)
DefaultMood == [mood |-> "neutral", updated_at |-> 0, context |-> ""]

\* StateManager.get_current_mood
GetCurrentMood == moodFile

\* StateManager.get_recent_thoughts
GetRecentThoughts ==
    [thoughts |-> thoughtsFile.text, blog_posts |-> blogCacheFile,
     updated_at |-> thoughtsFile.mtime]

\* StateManager.get_current_state
GetCurrentState ==
    [mood |-> GetCurrentMood.mood,
     mood_updated_at |-> GetCurrentMood.updated_at,
     mood_context |-> GetCurrentMood.context,
     thoughts |-> GetRecentThoughts.thoughts,
     thoughts_updated_at |-> GetRecentThoughts.updated_at,
     blog_posts |-> GetRecentThoughts.blog_posts]

\* What a read of a state file meets: the file as it is, no file, or an
\* exception from open, read or json.load; for the digest also an exception
\* from getmtime after the text was read.
MoodFaults == {"none", "missing", "raises"}
ThoughtsFaults == {"none", "missing", "raises", "mtime_raises"}
BlogCacheFaults == {"none", "missing", "raises"}

\* get_current_mood when the read of the mood file meets `fault`; the
\* variant lets the exception out.
GetCurrentMoodUnguarded(fault) ==
    IF fault = "missing" THEN DefaultMood
    ELSE IF fault = "raises" THEN [raised |-> "Exception"]
    ELSE moodFile

GetCurrentMoodUnder(fault) ==
    IF fault = "missing" THEN DefaultMood
    ELSE IF fault = "raises" THEN DefaultMood
    ELSE moodFile

\* get_recent_thoughts: one try block around both reads, so an exception at
\* the digest leaves the cache unread.
GetRecentThoughtsUnder(thoughtsFault, cacheFault) ==
    LET thoughtsRead == thoughtsFault \in {"none", "mtime_raises"}
        cacheReached == thoughtsFault \in {"none", "missing"}
    IN  [thoughts |-> IF thoughtsRead THEN thoughtsFile.text ELSE <<>>,
         blog_posts |-> IF cacheReached /\ cacheFault = "none"
                        THEN blogCacheFile ELSE <<>>,
         updated_at |-> IF thoughtsFault = "none" THEN thoughtsFile.mtime
                        ELSE 0]

(***************************************************************************)
(* LogAccumulator: daily logs under the analysis directory. The clock of   *)
(* the model ticks once a day: a time is a number of days, and day 0 is    *)
(* 2024-12-30, so that the dates of the model cross the end of a month and *)
(* of a year.                                                              *)
(***************************************************************************)
\* The days a date of the model can fall on.
DayRange == (0 - WeekBack - 1)..(MaxClock + 1)

\* datetime.strftime("%Y-%m-%d"): year, month and day, zero-padded, so that
\* the order of the strings is the order of the triples.
DateStr(day) ==
    IF 30 + day <= 31 THEN <<2024, 12, 30 + day>>
    ELSE <<2025, 1, day - 1>>

Dates == {DateStr(day) : day \in DayRange}

\* datetime.strptime(date, "%Y-%m-%d")
StrpTime(date) == CHOOSE day \in DayRange : DateStr(day) = date

\* date1 < date2 as strings
DateBefore(date1, date2) ==
    \/ date1[1] < date2[1]
    \/ date1[1] = date2[1] /\ date1[2] < date2[2]
    \/ date1[1] = date2[1] /\ date1[2] = date2[2] /\ date1[3] < date2[3]

\* sorted(keys, reverse=True), for comparison
SortedDatesDescending(keys) ==
    [i \in 1..Cardinality(keys) |->
        CHOOSE d \in keys :
            Cardinality({e \in keys : DateBefore(d, e)}) = i - 1]

\* sorted(keys)
SortedDates(keys) ==
    [i \in 1..Cardinality(keys) |->
        CHOOSE d \in keys :
            Cardinality({e \in keys : DateBefore(e, d)}) = i - 1]

\* A log is the sequence of its lines: "e" is a line with text, " " a line
\* of blanks. line.strip() is not empty:
HasText(line) == line \notin {"", " "}

\* len([line for line in content.split("\n") if line.strip()])
CountLines(content) == Len(SelectSeq(content, HasText))

\* content.strip() is not empty
ContentHasText(content) == CountLines(content) > 0

\* get_daily_log_path(date): the path is returned after the directory of
\* the date was created, if it was not there.
GetDailyLogPath(tree, date) == [tree EXCEPT !.dirs = @ \cup {date}]

\* get_log_content(date): [content, tree]; None when there is no file
GetLogContent(tree, date) ==
    [content |-> tree.logs[date], tree |-> GetDailyLogPath(tree, date)]

\* get_date_range_logs(start_date, end_date): [logs, tree], logs mapping the
\* dates that have content to it
GetDateRangeLogs(tree, start_date, end_date) ==
    LET days == {day \in DayRange :
                    StrpTime(start_date) <= day /\ day <= StrpTime(end_date)}
        read == {DateStr(day) : day \in days}
        with == {date \in read : GetLogContent(tree, date).content # <<>>}
    IN  [logs |-> [date \in with |-> tree.logs[date]],
         tree |-> [tree EXCEPT
                     !.dirs = @ \cup UNION {GetDailyLogPath(tree, date).dirs
                                              : date \in read}]]

\* log_entry = f"[{time_str}] [{app_package}] {text}\n": the lines written
\* for a text given as its lines; the first begins with the time and the
\* package and so has text, the others are those of the text.
LogEntry(text) == <<"e">> \o Tail(text)

\* append_text_log(text, app_package, timestamp): the entry is added to the
\* log of the date of timestamp, which is in milliseconds
AppendTextLog(tree, timestamp, text) ==
    LET date_str == DateStr(timestamp \div 1000)
    IN  [GetDailyLogPath(tree, date_str) EXCEPT
            !.logs[date_str] = @ \o LogEntry(text)]

\* get_log_count(date): [count, tree]
GetLogCount(tree, date) ==
    LET read == GetLogContent(tree, date)
    IN  [count |-> IF read.content = <<>> THEN 0 ELSE CountLines(read.content),
         tree |-> read.tree]

(***************************************************************************)
(* CommentaryService: the gatherers                                        *)
(***************************************************************************)
\* _gather_recent_logs(days) at time now: [text, count, tree]; text is the
\* sequence of sections, a date header and the content of that date.
GatherRecentLogs(tree, now, days) ==
    LET end_date == DateStr(now)
        start_date == DateStr(now - (days - 1))
        r == GetDateRangeLogs(tree, start_date, end_date)
        kept == {date \in DOMAIN r.logs : ContentHasText(r.logs[date])}
        order == SortedDates(kept)
    IN  [text |-> [i \in 1..Len(order) |->
                      [header |-> order[i], content |-> r.logs[order[i]]]],
         count |-> IF kept = {} THEN 0
                   ELSE LET counts == [i \in 1..Len(order) |->
                                          CountLines(r.logs[order[i]])]
                        IN  SumSeq(counts),
         tree |-> r.tree]

\* _gather_recent_blogs(weeks) at time now: [text, count]; published_at is
\* tested for truth before the window is.
GatherRecentBlogs(posts, now, weeks) ==
    LET start_timestamp == now - weeks * WeekDays
        filtered == SelectSeq(posts, LAMBDA post :
                        /\ Get(post, "published_at", 0) # 0
                        /\ start_timestamp <= post.published_at
                        /\ post.published_at <= now)
        sorted == SortDesc(filtered, "published_at")
    IN  [text |-> [i \in 1..Len(sorted) |->
                      [title |-> sorted[i].title, url |-> sorted[i].url,
                       published |-> sorted[i].published_at,
                       body |-> sorted[i].body]],
         count |-> Len(filtered)]

(***************************************************************************)
(* Sync coordinator                                                        *)
(***************************************************************************)
Device == "phone"      \* the "sub" of the verified token

\* str(e)[:100]
Truncate(err) == [err EXCEPT !.len = Min(err.len, ErrorMaxLen)]

\* The filter of sync_pull on the events recent() returned.
PullFilterInclusive(memories, last_sync_timestamp) ==
    IF last_sync_timestamp > 0
    THEN SelectSeq(memories, LAMBDA m : m.timestamp >= last_sync_timestamp)
    ELSE memories

PullFilter(memories, last_sync_timestamp) ==
    IF last_sync_timestamp > 0
    THEN SelectSeq(memories, LAMBDA m : m.timestamp > last_sync_timestamp)
    ELSE memories

\* The events the loop of sync_push gets to: for i, event in enumerate(events).
AttemptedUntilFailure(events, now, failAt, failLen) ==
    {i \in 1..Len(events) :
        \A j \in 1..(i - 1) :
            Insert(0, events[j], Device, now, IF j = failAt THEN failLen ELSE 0).ok}

Attempted(events, now, failAt, failLen) == 1..Len(events)

\* The loop of sync_push over a collection in which count ids were stored; the
\* insert of event failAt raises an index error of failLen characters. Turn i
\* runs insert after the turns before it: inserts[i] is its outcome.
\* Gives [added, results, stored, failed].
PushLoop(count, events, now, failAt, failLen) ==
    LET turns == Attempted(events, now, failAt, failLen)
        raises(i) == IF i = failAt THEN failLen ELSE 0
        \* the documents each turn appends, whatever ids were stored before
        grows == [i \in turns |->
                    Len(Insert(0, events[i], Device, now, raises(i)).added)]
        before == [i \in turns |->
                    Cardinality({j \in turns : j < i /\ grows[j] > 0})]
        inserts == [i \in turns |->
                      Insert(count + before[i], events[i], Device, now, raises(i))]
        result(i) ==
            IF inserts[i].ok
            THEN [event_index |-> i - 1, id |-> inserts[i].id, success |-> TRUE,
                  error |-> NoError]
            ELSE [event_index |-> i - 1, id |-> None, success |-> FALSE,
                  error |-> Truncate(inserts[i].raised)]
        n == Cardinality(turns)
    IN  [added   |-> Flatten([i \in 1..n |-> inserts[i].added]),
         results |-> [i \in 1..n |-> result(i)],
         stored  |-> Cardinality({i \in turns : inserts[i].ok}),
         failed  |-> Cardinality({i \in turns : ~inserts[i].ok})]

ResultIds(results) ==
    {results[i].id : i \in {j \in 1..Len(results) : results[j].success}}

\* POST /api/sync/push; retry: the client sends the batch of its last push again
SyncPush(events, failAt, failLen, retry) ==
    LET out == PushLoop(uuidCount, events, clock, failAt, failLen)
    IN  /\ collection' = collection \o out.added
        /\ uuidCount' = uuidCount + Len(out.added)
        /\ storeBefore' = collection
        /\ syncResp' =
             [op |-> "push", status |-> 201, request |-> events,
              stored_count |-> out.stored, failed_count |-> out.failed,
              results |-> out.results,
              \* history: the turn whose insert the index failed (0: none),
              \* and the first push of a batch sent twice
              fail_at |-> failAt,
              retry |-> retry,
              first_ids |-> IF retry THEN ResultIds(syncResp.results) ELSE {},
              first_before |-> IF retry THEN Len(storeBefore) ELSE 0]
        /\ UNCHANGED <<raceVars, clientVars, rateVars, logVars, clock, stateVars, fileVars>>

\* POST /api/sync/pull; getRaises: collection.get raises
SyncPull(last_sync_timestamp, getRaises) ==
    LET current_state == GetCurrentState
        recent_memories ==
            PullFilter(Recent(collection, PullLimit, 0, None).events,
                       last_sync_timestamp)
    IN  /\ syncResp' =
             IF getRaises
             THEN [op |-> "pull", status |-> 500, detail |-> "Sync failed"]
             ELSE [op |-> "pull", status |-> 200,
                   current_state |->
                       [mood |-> current_state.mood,
                        mood_context |-> current_state.mood_context,
                        thoughts |-> current_state.thoughts,
                        blog_posts |-> current_state.blog_posts],
                   recent_memories |-> recent_memories,
                   context |-> [last_sync |-> last_sync_timestamp,
                                new_events_count |-> Len(recent_memories),
                                server_time |-> clock]]
        /\ storeBefore' = collection
        /\ UNCHANGED <<raceVars, clientVars, rateVars, logVars, collection, uuidCount, clock, stateVars, fileVars>>

(***************************************************************************)
(* The sync specification: one client that sends a request, receives the   *)
(* response and sends the next one, or sends the batch of its last push    *)
(* once more.                                                              *)
(***************************************************************************)
Timestamps == 0..MaxTs
Cursors    == -1..(MaxTs + 1)

\* An id a client puts into an event it pushes; uuid4 never gives it.
ClientId == Uuid(0)

\* Events a client pushes: well-formed with and without a timestamp,
\* malformed (no type, an empty type), and carrying an id of the client's.
LooseEvents ==
    {[type |-> "note", timestamp |-> t] : t \in Timestamps}
      \cup {[type |-> "note"], [timestamp |-> 0]}
      \cup {[type |-> "", timestamp |-> 0]}
      \cup {[type |-> "note", timestamp |-> 0, id |-> ClientId]}

RECURSIVE SeqsUpTo(_, _)
SeqsUpTo(S, n) ==
    IF n = 0 THEN {<<>>}
    ELSE LET shorter == SeqsUpTo(S, n - 1)
         IN  shorter \cup {Append(q, x) : q \in shorter, x \in S}

\* A batch larger than the pull limit, all of one timestamp.
BulkBatch(t) ==
    [i \in 1..(PullLimit + BulkExtra) |-> [type |-> "bulk", timestamp |-> t]]

CountType(coll, type) == Cardinality({i \in 1..Len(coll) : coll[i].type = type})

\* Length of str(e) of the error the index raises.
IndexErrorLen == ErrorMaxLen + 1

Idle == syncResp.op = "none"

PushLoose ==
    \E events \in SeqsUpTo(LooseEvents, MaxLoose) \ {<<>>} :
      \E failAt \in 0..Len(events) :
        /\ Idle
        /\ CountType(collection, "note") + Len(events) <= MaxLoose
        /\ SyncPush(events, failAt, IndexErrorLen, FALSE)

\* One bulk batch is sent in a run.
PushBulk ==
    \E t \in Timestamps :
        /\ Idle
        /\ CountType(collection, "bulk") = 0
        /\ Len(BulkBatch(t)) <= MaxBatchItems
        /\ SyncPush(BulkBatch(t), 0, 0, FALSE)

PushRetry ==
    /\ syncResp.op = "push"
    /\ ~syncResp.retry
    /\ Get(syncResp.request[1], "type", "") # "bulk"
    /\ CountType(collection, "note") + Len(syncResp.request) <= MaxLoose
    /\ SyncPush(syncResp.request, 0, 0, TRUE)

Pull ==
    \E c \in Cursors, getRaises \in BOOLEAN :
        /\ Idle
        /\ SyncPull(c, getRaises)

\* The client has received the response.
Receive ==
    /\ ~Idle
    /\ syncResp' = [op |-> "none"]
    /\ storeBefore' = <<>>
    /\ UNCHANGED <<raceVars, clientVars, rateVars, logVars, collection, uuidCount, clock, stateVars, fileVars>>

(***************************************************************************)
(* RateLimitStore (api/middleware/security.py)                             *)
(***************************************************************************)
RateWindow == 60    \* cutoff = now - 60

\* The addresses of the clients and the paths they ask for.
Keys == {"10.0.0.1", "10.0.0.2"}
Paths == {"/api/health", "/api/sync/pull"}
SkippedPaths == {"/api/health", "/docs", "/redoc"}

\* is_allowed with `<=` in place of `<`, for comparison
IsAllowedInclusive(store, key, now) ==
    LET cutoff == now - RateWindow
        kept == SelectSeq(store[key], LAMBDA t : t > cutoff)
        allowed == Len(kept) <= RequestsPerMinute
    IN  [allowed |-> allowed,
         store |-> [store EXCEPT
                      ![key] = IF allowed THEN Append(kept, now) ELSE kept]]

\* RateLimitStore.is_allowed(key) at time now: [allowed, store]. A key
\* that is not in the store reads as the empty list.
IsAllowed(store, key, now) ==
    LET cutoff == now - RateWindow
        kept == SelectSeq(store[key], LAMBDA t : t > cutoff)
        allowed == Len(kept) < RequestsPerMinute
    IN  [allowed |-> allowed,
         store |-> [store EXCEPT
                      ![key] = IF allowed THEN Append(kept, now) ELSE kept]]

\* check_rate_limit(request): [allowed, store]
CheckRateLimit(store, path, key, now) ==
    IF path \in SkippedPaths THEN [allowed |-> TRUE, store |-> store]
    ELSE IsAllowed(store, key, now)

\* rate_limit_check_middleware: 429 for a request that is not allowed.
\* granted is the history of the times is_allowed has granted to each key.
RateRequest ==
    \E key \in Keys, path \in Paths :
        LET r == CheckRateLimit(limiter.store, path, key, limiter.now)
        IN  /\ limiter' =
                 [store |-> r.store, now |-> limiter.now,
                  granted |-> IF r.allowed /\ path \notin SkippedPaths
                              THEN [limiter.granted EXCEPT
                                      ![key] = Append(@, limiter.now)]
                              ELSE limiter.granted,
                  last |-> [op |-> "request", key |-> key, path |-> path,
                            now |-> limiter.now, allowed |-> r.allowed,
                            status |-> IF r.allowed THEN 200 ELSE 429,
                            before |-> limiter.store]]
            /\ UNCHANGED <<clientVars, raceVars, logVars, clock, syncVars, stateVars,
                           fileVars>>

\* time.time() has advanced.
RateTick ==
    /\ limiter.now + RateStep <= MaxRateTime
    /\ limiter' = [limiter EXCEPT !.now = @ + RateStep]
    /\ UNCHANGED <<clientVars, raceVars, logVars, clock, syncVars, stateVars, fileVars>>

NextRate == RateRequest \/ RateTick

InitState ==
    /\ clock = 1
    /\ client = [last_sync_timestamp |-> 0, received |-> {}]
    /\ limiter = [store |-> [key \in Keys |-> <<>>], now |-> 0,
                  granted |-> [key \in Keys |-> <<>>],
                  last |-> [op |-> "none"]]
    /\ analysis = [dirs |-> {}, logs |-> [d \in Dates |-> <<>>],
                   rangeDirs |-> {}, summaries |-> {}]
    /\ moodFile = DefaultMood
    /\ thoughtsFile = [text |-> <<>>, mtime |-> 1]
    /\ blogCacheFile = <<>>
    /\ lastCall = [op |-> "none"]
    /\ dir = {}
    /\ writer = [pc |-> "idle"]
    /\ torn = {}
    /\ seen = [op |-> "none"]
    /\ calls = [c \in Callers |-> [pc |-> "idle"]]

InitSync ==
    /\ collection = <<>>
    /\ uuidCount = 0
    /\ syncResp = [op |-> "none"]
    /\ storeBefore = <<>>
    /\ InitState

NextSync == PushLoose \/ PushBulk \/ PushRetry \/ Pull \/ Receive

SpecSync == InitSync /\ [][NextSync]_vars

SpecRate == InitSync /\ [][NextRate]_vars

(***************************************************************************)
(* The cursor specification: events arrive in pushes with timestamps their *)
(* senders chose, singly or in one batch larger than the pull limit, and   *)
(* one client pulls with its cursor and, having received the response,     *)
(* advances the cursor to the largest timestamp it has received. The       *)
(* client sends its next pull whenever it can and reads every response.    *)
(***************************************************************************)
\* The largest timestamp among memories, the cursor when there are none
NewestTimestamp(memories, last_sync_timestamp) ==
    Max({memories[i].timestamp : i \in 1..Len(memories)}
          \cup {last_sync_timestamp})

ClientPush ==
    \E t \in Timestamps :
        /\ Idle
        /\ CountType(collection, "note") < MaxLoose
        /\ SyncPush(<<[type |-> "note", timestamp |-> t]>>, 0, 0, FALSE)

ClientPushBulk ==
    \E t \in Timestamps :
        /\ Idle
        /\ CountType(collection, "bulk") = 0
        /\ SyncPush(BulkBatch(t), 0, 0, FALSE)

\* The response of a push is read; the cursor is that of pulls.
ClientPushed ==
    /\ syncResp.op = "push"
    /\ Receive

ClientPull ==
    /\ Idle
    /\ SyncPull(client.last_sync_timestamp, FALSE)

ClientPulled ==
    /\ syncResp.op = "pull"
    /\ client' =
         [last_sync_timestamp |->
              NewestTimestamp(syncResp.recent_memories,
                              client.last_sync_timestamp),
          received |->
              client.received
                \cup {syncResp.recent_memories[i].id :
                        i \in 1..Len(syncResp.recent_memories)}]
    /\ syncResp' = [op |-> "none"]
    /\ storeBefore' = <<>>
    /\ UNCHANGED <<raceVars, rateVars, logVars, collection, uuidCount, clock,
                   stateVars, fileVars>>

NextClient ==
    ClientPush \/ ClientPushBulk \/ ClientPushed \/ ClientPull \/ ClientPulled

SpecClient ==
    /\ InitSync
    /\ [][NextClient]_vars
    /\ WF_vars(ClientPull)
    /\ WF_vars(ClientPulled)
    /\ WF_vars(ClientPushed)

(***************************************************************************)
(* Memory routes (api/routes/memory.py)                                    *)
(***************************************************************************)
\* MemoryStoreRequest: type is required and has min_length=1.
SchemaRejects(event) == Get(event, "type", "") = ""

\* event.model_dump(): every field of MemoryStoreRequest is a key of the
\* dict, data with {} and timestamp with None when the request left them out.
ModelDump(event) ==
    [type |-> Get(event, "type", ""), data |-> Get(event, "data", <<>>),
     timestamp |-> Get(event, "timestamp", None)]

\* store_event: the request is validated (422), insert is called on the
\* dumped request, and its ValueError becomes 400, any other exception 500.
StoreEvent(event, addRaises) ==
    LET r == Insert(uuidCount, ModelDump(event), Device, clock, addRaises)
    IN  /\ syncResp' =
             IF SchemaRejects(event)
             THEN [op |-> "store", status |-> 422, request |-> event]
             ELSE IF r.ok
             THEN [op |-> "store", status |-> 201, request |-> event,
                   id |-> r.id, stored |-> TRUE]
             ELSE IF r.raised = ValueError
             THEN [op |-> "store", status |-> 400, request |-> event]
             ELSE [op |-> "store", status |-> 500, request |-> event]
        /\ collection' = IF SchemaRejects(event) THEN collection
                         ELSE collection \o r.added
        /\ uuidCount' = IF ~SchemaRejects(event) /\ r.ok THEN uuidCount + 1
                        ELSE uuidCount
        /\ storeBefore' = collection
        /\ UNCHANGED <<raceVars, clientVars, rateVars, logVars, clock, stateVars, fileVars>>

\* MemorySearchResult: similarity_score has ge=0, le=1.
ScoreValid(result) ==
    result.similarity_score >= 0 /\ result.similarity_score <= 1

\* search_memory: any exception of search, or of building the response,
\* becomes 500.
SearchMemory(query, limit, filters) ==
    LET r == Search(collection, query, limit, filters)
        valid == r.ok /\ \A i \in 1..Len(r.output) : ScoreValid(r.output[i])
    IN  /\ syncResp' =
             [op |-> "search", query |-> query, limit |-> limit,
              filters |-> filters, selected |-> r.selected,
              status |-> IF valid THEN 200 ELSE 500,
              results |-> IF valid THEN r.output ELSE <<>>]
        /\ storeBefore' = collection
        /\ UNCHANGED <<raceVars, clientVars, rateVars, logVars, collection, uuidCount, clock, stateVars, fileVars>>

\* The limit and offset get_recent passes on to recent().
ServedLimit(limit) ==
    IF limit < 1 \/ limit > RecentMax THEN RecentDefault ELSE limit

ServedOffset(offset) == IF offset < 0 THEN 0 ELSE offset

\* get_recent(limit, offset, type_filter)
GetRecent(limit, offset, type_filter) ==
    LET r == Recent(collection, ServedLimit(limit), ServedOffset(offset),
                    type_filter)
    IN  /\ syncResp' =
             [op |-> "recent", status |-> 200, limit |-> limit,
              offset |-> offset, type_filter |-> type_filter,
              results |-> r.events, count |-> Len(r.events),
              total |-> r.total,
              has_more |-> ServedOffset(offset) + ServedLimit(limit) < r.total]
        /\ storeBefore' = collection
        /\ UNCHANGED <<raceVars, clientVars, rateVars, logVars, collection, uuidCount, clock, stateVars, fileVars>>

\* delete_event(event_id): 204, or 404 when delete returns False
DeleteEvent(event_id) ==
    LET r == Delete(collection, event_id)
    IN  /\ syncResp' = [op |-> "delete", event_id |-> event_id,
                        status |-> IF r.found THEN 204 ELSE 404]
        /\ collection' = r.collection
        /\ storeBefore' = collection
        /\ UNCHANGED <<raceVars, clientVars, rateVars, logVars, uuidCount, clock, stateVars, fileVars>>

(***************************************************************************)
(* The memory specification: one client of the memory routes, which also   *)
(* pushes a bulk batch and pulls.                                          *)
(***************************************************************************)
AppLaunch(t) ==
    [type |-> "app_launch", data |-> [app |-> "maps"], timestamp |-> t]

\* Events sent to memory.store: well-formed, with an empty type, and with
\* no type.
MemEvents ==
    {AppLaunch(t) : t \in {0, MaxTs}}
      \cup {[type |-> "", data |-> [app |-> "maps"], timestamp |-> 0],
            [data |-> [app |-> "maps"], timestamp |-> 0]}

\* Queries: the text of a stored event, a text of the same template, and an
\* unrelated text.
Queries ==
    {EventToText(AppLaunch(0)),
     [form |-> "App launch", app |-> "mail", duration |-> 0],
     [form |-> "weather"]}

\* No filters, and filters that give each constraint or leave it out.
SearchFilters ==
    {<<>>}
      \cup {<<[type |-> type, timestamp_min |-> lo, timestamp_max |-> hi]>> :
              type \in {<<>>, <<"app_launch">>},
              lo \in {<<>>, <<MaxTs>>},
              hi \in {<<>>, <<0>>, <<MaxTs - 1>>}}

RecentLimits == {0, 1, 10, RecentMax + 1}
RecentOffsets == {-1, 0, PullLimit - 5}
TypeFilters == {None, <<"bulk">>, <<"">>}

\* Ids a client asks to delete: the first ones handed out, and one that was
\* never stored.
DeleteIds == {Uuid(n) : n \in 0..MaxStored}

MemStore ==
    \E event \in MemEvents, addRaises \in {0, IndexErrorLen} :
        /\ Idle
        /\ CountType(collection, "app_launch") < MaxStored
        /\ StoreEvent(event, addRaises)

MemSearch ==
    \E query \in Queries, limit \in {1, MaxStored}, filters \in SearchFilters :
        /\ Idle
        /\ SearchMemory(query, limit, filters)

MemRecent ==
    \E limit \in RecentLimits, offset \in RecentOffsets,
       type_filter \in TypeFilters :
        /\ Idle
        /\ GetRecent(limit, offset, type_filter)

MemDelete ==
    \E event_id \in DeleteIds :
        /\ Idle
        /\ DeleteEvent(event_id)

InitMemory == InitSync

NextMemory ==
    MemStore \/ MemSearch \/ MemRecent \/ MemDelete \/ PushBulk \/ Pull
      \/ Receive

SpecMemory == InitMemory /\ [][NextMemory]_vars

(***************************************************************************)
(* The memory routes while the index fails: the collection's get or query   *)
(* raises, recent() and search() log and re-raise, and the routes answer    *)
(* from their handlers.                                                     *)
(***************************************************************************)
\* get_recent when collection.get raises
GetRecentIndexRaises(limit, offset, type_filter) ==
    /\ syncResp' = [op |-> "recent", index |-> "raises", status |-> 500,
                    detail |-> "Failed to retrieve events", limit |-> limit,
                    offset |-> offset, type_filter |-> type_filter]
    /\ storeBefore' = collection
    /\ UNCHANGED <<raceVars, clientVars, rateVars, logVars, collection, uuidCount, clock, stateVars, fileVars>>

\* search_memory when collection.query raises
SearchMemoryIndexRaises(query, limit, filters) ==
    /\ syncResp' = [op |-> "search", index |-> "raises", status |-> 500,
                    detail |-> "Search failed", query |-> query,
                    limit |-> limit, filters |-> filters]
    /\ storeBefore' = collection
    /\ UNCHANGED <<raceVars, clientVars, rateVars, logVars, collection, uuidCount, clock, stateVars, fileVars>>

RecentOutage ==
    \E limit \in RecentLimits, offset \in RecentOffsets,
       type_filter \in TypeFilters :
        /\ Idle
        /\ GetRecentIndexRaises(limit, offset, type_filter)

SearchOutage ==
    \E query \in Queries, limit \in {1, MaxStored}, filters \in SearchFilters :
        /\ Idle
        /\ SearchMemoryIndexRaises(query, limit, filters)

NextOutage == MemStore \/ Pull \/ RecentOutage \/ SearchOutage \/ Receive

SpecOutage == InitMemory /\ [][NextOutage]_vars

(***************************************************************************)
(* Log routes (api/routes/logs.py)                                         *)
(***************************************************************************)
\* The event upload_logs builds for a log entry.
EventData(log_entry, device_id) ==
    [type |-> "captured_text", text |-> log_entry.text,
     appPackage |-> log_entry.appPackage,
     deviceId |-> IF log_entry.deviceId # "" THEN log_entry.deviceId
                  ELSE device_id,
     timestamp |-> log_entry.timestamp]

\* The status of the response, without "partial", for comparison
UploadStatusNoPartial(uploaded_count, failed_count) ==
    IF failed_count = 0 THEN "success" ELSE "failed"

\* The status of the response
UploadStatus(uploaded_count, failed_count) ==
    IF failed_count = 0 THEN "success"
    ELSE IF uploaded_count = 0 THEN "failed"
    ELSE "partial"

\* The loop of upload_logs from entry idx on. st is [collection, count,
\* tree, uploaded, failed, stored]; insert raises for the entries of
\* insertFails, the write of append_text_log for those of appendFails, which
\* append_text_log logs and swallows after the directory of the date exists.
RECURSIVE UploadLoop(_, _, _, _, _)
UploadLoop(st, logs, idx, insertFails, appendFails) ==
    IF idx > Len(logs) THEN st
    ELSE
        LET log_entry == logs[idx]
            r == Insert(st.count, EventData(log_entry, Device), Device, clock,
                        IF idx \in insertFails THEN 1 ELSE 0)
            date_str == DateStr(log_entry.timestamp \div 1000)
            next ==
                IF r.ok
                THEN [collection |-> st.collection \o r.added,
                      count |-> st.count + 1,
                      tree |-> IF idx \in appendFails
                               THEN GetDailyLogPath(st.tree, date_str)
                               ELSE AppendTextLog(st.tree, log_entry.timestamp,
                                                  log_entry.text),
                      uploaded |-> st.uploaded + 1,
                      failed |-> st.failed,
                      stored |-> Append(st.stored, log_entry)]
                ELSE [st EXCEPT !.failed = @ + 1]
        IN  UploadLoop(next, logs, idx + 1, insertFails, appendFails)

\* upload_logs(upload_req) of the device of the token
UploadLogsRoute(logs, insertFails, appendFails) ==
    LET end == UploadLoop([collection |-> collection, count |-> uuidCount,
                           tree |-> analysis, uploaded |-> 0, failed |-> 0,
                           stored |-> <<>>],
                          logs, 1, insertFails, appendFails)
    IN  /\ collection' = end.collection
        /\ uuidCount' = end.count
        /\ analysis' = end.tree
        /\ syncResp' = [op |-> "upload_logs", request |-> logs,
                        \* history: the entries that failed at each step,
                        \* the entries stored, the tree before
                        insertFails |-> insertFails,
                        appendFails |-> appendFails,
                        stored |-> end.stored, tree |-> analysis,
                        status_code |-> 201,
                        uploaded |-> end.uploaded, failed |-> end.failed,
                        status |-> UploadStatus(end.uploaded, end.failed)]
        /\ storeBefore' = collection
        /\ UNCHANGED <<clientVars, rateVars, raceVars, clock, stateVars, fileVars>>

\* The filters search_logs hands to search: a key is there for an app
\* package that is not empty and for a bound that is not None; no key at
\* all gives None. A key that is absent reads as None.
LogFilters(appPackage, timestamp_min, timestamp_max) ==
    IF (appPackage = <<>> \/ appPackage = <<"">>)
         /\ timestamp_min = <<>> /\ timestamp_max = <<>>
    THEN <<>>
    ELSE <<[type |-> <<>>,
            appPackage |-> IF appPackage = <<"">> THEN <<>> ELSE appPackage,
            timestamp_min |-> timestamp_min,
            timestamp_max |-> timestamp_max]>>

\* search_logs(search_req): the results are built from result["data"]; any
\* exception of search becomes 500.
SearchLogsRoute(query, limit, appPackage, timestamp_min, timestamp_max) ==
    LET r == Search(collection, query, limit,
                    LogFilters(appPackage, timestamp_min, timestamp_max))
    IN  /\ syncResp' =
             [op |-> "search_logs", query |-> query,
              appPackage |-> appPackage, timestamp_min |-> timestamp_min,
              timestamp_max |-> timestamp_max, selected |-> r.selected,
              status |-> IF r.ok THEN 200 ELSE 500,
              results |->
                  IF r.ok
                  THEN [i \in 1..Len(r.output) |->
                          [id |-> r.output[i].id,
                           text |-> Get(r.output[i].data, "text", ""),
                           appPackage |-> Get(r.output[i].data, "appPackage",
                                              "unknown"),
                           timestamp |-> Get(r.output[i].data, "timestamp", 0),
                           deviceId |-> Get(r.output[i].data, "deviceId",
                                            "unknown"),
                           similarity_score |-> r.output[i].similarity_score]]
                  ELSE <<>>]
        /\ storeBefore' = collection
        /\ UNCHANGED <<raceVars, clientVars, rateVars, logVars, collection, uuidCount, clock,
                       stateVars, fileVars>>

(***************************************************************************)
(* The log specification: a device that uploads batches of captured texts  *)
(* and searches them, while inserts and appends may fail.                  *)
(***************************************************************************)
Packages == {"app.a", "app.b"}

\* The log entries a device uploads: captured at 0 or one second later, of
\* one line or of two.
LogEntries ==
    {[text |-> text, appPackage |-> appPackage, timestamp |-> timestamp,
      deviceId |-> "unknown"] :
        text \in {<<"e">>, <<"e", "e">>}, appPackage \in Packages,
        timestamp \in {0, 1000}}

LogQueries == {[form |-> "captured_text", json |-> <<>>], [form |-> "weather"]}

UploadLogs ==
    \E logs \in SeqsUpTo(LogEntries, MaxLogBatch) \ {<<>>},
       insertFails \in SUBSET (1..MaxLogBatch),
       appendFails \in SUBSET (1..MaxLogBatch) :
        /\ Idle
        /\ insertFails \cup appendFails \subseteq 1..Len(logs)
        /\ Len(collection) + Len(logs) <= MaxUploaded
        /\ UploadLogsRoute(logs, insertFails, appendFails)

SearchLogs ==
    \E query \in LogQueries, limit \in {1, MaxUploaded},
       appPackage \in {<<>>, <<"">>} \cup {<<a>> : a \in Packages},
       timestamp_min \in {<<>>, <<0>>, <<1000>>},
       timestamp_max \in {<<>>, <<0>>} :
        /\ Idle
        /\ SearchLogsRoute(query, limit, appPackage, timestamp_min,
                           timestamp_max)

NextLogs == UploadLogs \/ SearchLogs \/ Receive

SpecLogs == InitMemory /\ [][NextLogs]_vars

(***************************************************************************)
(* StateManager.update_blog_cache                                          *)
(***************************************************************************)
\* body[:200] of a body given as [of, len]
Preview(body) == [body EXCEPT !.len = Min(body.len, BodyPreview)]

Urls(cached) == {cached[i].url : i \in 1..Len(cached)}

\* new_posts = [post for post in posts if post.get("url") not in existing_urls]
TrulyNewUnfiltered(posts, existing) == posts

TrulyNew(posts, existing) ==
    SelectSeq(posts, LAMBDA post : post.url \notin Urls(existing))

\* if not new_posts: return True
NothingNewIgnored(new_posts) == FALSE

NothingNew(new_posts) == new_posts = <<>>

\* Summarizer.summarize(body): the text the model gave, or the fallback cut
\* of the body; "" for an empty body.
Summarize(body, how) ==
    IF body.len = 0 THEN [of |-> body.of, by |-> "empty"]
    ELSE [of |-> body.of, by |-> how]

\* Summarizer.summarize_blog_posts(posts): {**post, "summary": summary}
SummarizeBlogPosts(posts, how) ==
    [i \in 1..Len(posts) |->
        ("summary" :> Summarize(posts[i].body, how)) @@ posts[i]]

\* all_posts = new_posts + existing_posts; sort by scraped_at, newest first;
\* all_posts[:50]
MergePostsKeepsOldest(new_posts, existing_posts) ==
    LET all_posts == SortDesc(new_posts \o existing_posts, "scraped_at")
    IN  SubSeq(all_posts, Len(all_posts) - Min(Len(all_posts), CacheCap) + 1,
               Len(all_posts))

MergePostsExistingFirst(new_posts, existing_posts) ==
    LET all_posts == SortDesc(existing_posts \o new_posts, "scraped_at")
    IN  Slice(all_posts, 0, CacheCap)

MergePosts(new_posts, existing_posts) ==
    LET all_posts == SortDesc(new_posts \o existing_posts, "scraped_at")
    IN  Slice(all_posts, 0, CacheCap)

\* The digest of all_posts[:5]: one entry (title, summary, link) per post,
\* joined by blank lines.
RenderDigestOfAll(all_posts) ==
    [i \in 1..Len(all_posts) |->
        [title   |-> Get(all_posts[i], "title", "Untitled"),
         summary |-> Get(all_posts[i], "summary", Preview(all_posts[i].body)),
         url     |-> all_posts[i].url]]

RenderDigest(all_posts) ==
    [i \in 1..Min(DigestPosts, Len(all_posts)) |->
        [title   |-> Get(all_posts[i], "title", "Untitled"),
         summary |-> Get(all_posts[i], "summary", Preview(all_posts[i].body)),
         url     |-> all_posts[i].url]]

\* The value update_blog_cache returns when step `fail` raises: the handler
\* around the load swallows its exception and the call goes on; every other
\* exception reaches the handler of the call, which returns False.
SucceedsAlways(fail) == TRUE

Succeeds(fail) == fail \in {"none", "load"}

\* update_blog_cache(posts, summarizer). summarizer: "none", or how its
\* summaries come out ("llm", or "fallback" when the model cannot be
\* reached); fail: the step that raises ("none", "load": reading or parsing
\* the cache file, which the inner handler turns into an empty list,
\* "summarize": the summarizer itself, "cache": the atomic write of the
\* cache, "thoughts_open": opening the digest, "thoughts_write": writing it
\* once it is opened and emptied); again: the caller repeats its last call.
UpdateBlogCache(posts, summarizer, fail, again) ==
    LET existing_posts == IF fail = "load" THEN <<>> ELSE blogCacheFile
        new_posts == TrulyNew(posts, existing_posts)
        summarized == IF summarizer = "none" THEN new_posts
                      ELSE SummarizeBlogPosts(new_posts, summarizer)
        all_posts == MergePosts(summarized, existing_posts)
        call == [op |-> "update_blog_cache", posts |-> posts,
                 summarizer |-> summarizer,
                 before |-> [cache |-> blogCacheFile, thoughts |-> thoughtsFile],
                 again |-> again,
                 first_ret |-> IF again THEN lastCall.ret ELSE FALSE]
    IN  /\ IF NothingNew(new_posts)
           THEN /\ UNCHANGED <<blogCacheFile, thoughtsFile>>
                /\ lastCall' = call @@
                     [ret |-> TRUE, given |-> <<>>, added |-> <<>>,
                      wrote |-> FALSE,
                      failed |-> IF fail = "load" THEN fail ELSE "none"]
           ELSE /\ blogCacheFile' =
                     IF fail \in {"summarize", "cache"} THEN blogCacheFile
                     ELSE all_posts
                /\ thoughtsFile' =
                     CASE fail \in {"summarize", "cache", "thoughts_open"} ->
                            thoughtsFile
                       [] fail = "thoughts_write" ->
                            [text |-> <<>>, mtime |-> clock]
                       [] OTHER ->
                            [text |-> RenderDigest(all_posts), mtime |-> clock]
                /\ lastCall' = call @@
                     [ret |-> Succeeds(fail), failed |-> fail,
                      given |-> IF summarizer = "none" THEN <<>> ELSE new_posts,
                      added |-> IF fail = "summarize" THEN <<>> ELSE summarized,
                      wrote |-> fail \notin {"summarize", "cache"}]
        /\ UNCHANGED <<raceVars, clientVars, rateVars, logVars, clock, syncVars, moodFile, fileVars>>

(***************************************************************************)
(* The cache specification: a caller that hands post lists to              *)
(* update_blog_cache, one call after the other, and may repeat a call.     *)
(***************************************************************************)
\* A fetched post; its body is longer than the preview of the digest.
Post(url, scraped_at) ==
    [title |-> url, body |-> [of |-> url, len |-> BodyPreview + 1],
     url |-> url, published_at |-> scraped_at, scraped_at |-> scraped_at]

\* The posts of ordinary lists: url u was scraped at u modulo MaxScrape + 1.
LoosePosts == {Post(u, u % (MaxScrape + 1)) : u \in 1..MaxUrl}

\* A list longer than the cache: distinct urls, the first `old` posts scraped
\* at 0 and the others at MaxScrape.
BulkPosts(old) ==
    [i \in 1..(CacheCap + BulkExtra) |->
        Post(MaxUrl + i, IF i <= old THEN 0 ELSE MaxScrape)]

Summarizers == {"none", "llm"}
WriteFailures == {"none", "cache", "thoughts_open", "thoughts_write"}

NoCall == lastCall.op = "none"

Merge ==
    \E posts \in SeqsUpTo(LoosePosts, MaxBatch), summarizer \in Summarizers :
        /\ NoCall
        /\ UpdateBlogCache(posts, summarizer, "none", FALSE)

\* A call in which a write fails.
MergeFailing ==
    \E post \in LoosePosts, fail \in WriteFailures \ {"none"} :
        /\ NoCall
        /\ UpdateBlogCache(<<post>>, "llm", fail, FALSE)

\* The bulk list is the first list fetched.
MergeBulk ==
    \E old \in {0, BulkExtra}, summarizer \in Summarizers :
        /\ NoCall
        /\ blogCacheFile = <<>>
        /\ UpdateBlogCache(BulkPosts(old), summarizer, "none", FALSE)

\* A post of a url of its own, scraped at the same time as a cached post.
TwinPost(scraped_at) == Post(0, scraped_at)

MergeTwin ==
    \E i \in 1..Min(Len(blogCacheFile), 1), summarizer \in Summarizers :
        /\ NoCall
        /\ UpdateBlogCache(<<TwinPost(blogCacheFile[i].scraped_at)>>,
                           summarizer, "none", FALSE)

\* The caller repeats its call: the same list, the same summarizer.
MergeAgain ==
    /\ lastCall.op = "update_blog_cache"
    /\ ~lastCall.again
    /\ UpdateBlogCache(lastCall.posts, lastCall.summarizer, "none", TRUE)

\* The call has returned to its caller.
Return ==
    /\ ~NoCall
    /\ lastCall' = [op |-> "none"]
    /\ UNCHANGED <<raceVars, clientVars, rateVars, logVars, clock, syncVars, moodFile, thoughtsFile, blogCacheFile,
                   fileVars>>

Tick ==
    /\ clock < MaxClock
    /\ clock' = clock + 1
    /\ UNCHANGED <<raceVars, clientVars, rateVars, logVars, syncVars, stateVars, fileVars>>

InitCache == InitSync

NextCache ==
    Merge \/ MergeFailing \/ MergeBulk \/ MergeTwin \/ MergeAgain \/ Return
      \/ Tick

SpecCache == InitCache /\ [][NextCache]_vars

(***************************************************************************)
(* The cache under faults: the calls of the cache specification, and calls *)
(* in which the cache file cannot be read or parsed, the summarizer raises, *)
(* or the summarizer falls back because its model cannot be reached.        *)
(***************************************************************************)
\* open() or json.load() of blog_cache.json raises.
MergeUnreadable ==
    \E posts \in SeqsUpTo(LoosePosts, MaxBatch) \ {<<>>},
       summarizer \in Summarizers :
        /\ NoCall
        /\ UpdateBlogCache(posts, summarizer, "load", FALSE)

\* summarizer.summarize_blog_posts raises.
MergeSummarizerRaises ==
    \E post \in LoosePosts :
        /\ NoCall
        /\ UpdateBlogCache(<<post>>, "llm", "summarize", FALSE)

\* Summarizer.summarize catches the failure of its request and returns the
\* first words of the body.
MergeFallback ==
    \E post \in LoosePosts :
        /\ NoCall
        /\ UpdateBlogCache(<<post>>, "fallback", "none", FALSE)

NextCacheFaults ==
    Merge \/ MergeFailing \/ MergeUnreadable \/ MergeSummarizerRaises
      \/ MergeFallback \/ Return \/ Tick

SpecCacheFaults == InitCache /\ [][NextCacheFaults]_vars

(***************************************************************************)
(* The writes of StateManager, statement by statement.  The server runs   *)
(* the body of a write without suspension, so one write is in progress at  *)
(* a time; other processes read the files at any moment and the server may *)
(* be killed at any statement.                                             *)
(***************************************************************************)
VALID_MOODS == {"happy", "sad", "focused", "tired", "anxious", "neutral"}

\* Moods a client sends, valid and not, and the contexts it sends with them
\* (None is stored as "").
MoodInputs == {"happy", "tired", "ecstatic", "Happy"}
Contexts == {"", "at work"}

\* mood in self.VALID_MOODS
ValidMoodAny(mood) == TRUE

ValidMood(mood) == mood \in VALID_MOODS

FileContent(path) ==
    CASE path = "mood" -> moodFile
      [] path = "blog_cache" -> blogCacheFile
      [] path = "thoughts" -> thoughtsFile

TmpFile(name) == CHOOSE t \in dir : t.name = name

WriterIdle == writer.pc = "idle" /\ seen.op = "none" /\ NoCall

\* _atomic_write_json(filepath, data): NamedTemporaryFile(dir=..., delete=False)
\* creates an empty temp file beside the target.
AtomicWriteBegin(call, filepath, data) ==
    /\ Cardinality(dir) < MaxTmp
    /\ LET name == CHOOSE n \in 1..MaxTmp : \A t \in dir : t.name # n
       IN  /\ dir' = dir \cup {[name |-> name, written |-> 0]}
           /\ writer' = [pc |-> "dump", call |-> call, path |-> filepath,
                         data |-> data, original |-> FileContent(filepath),
                         tmp |-> name]

\* update_mood(mood, context) up to the creation of the temp file
UpdateMoodBegin ==
    \E mood \in MoodInputs, context \in Contexts :
        /\ WriterIdle
        /\ ValidMood(mood)
        /\ AtomicWriteBegin("update_mood", "mood",
                            [mood |-> mood, updated_at |-> clock,
                             context |-> context])
        /\ UNCHANGED <<raceVars, clientVars, rateVars, logVars, clock, syncVars, stateVars, torn, seen>>

\* update_mood(mood, context) with a mood that is not valid: ValueError is
\* raised before data is built, and the route answers 400.
UpdateMoodRejected ==
    \E mood \in MoodInputs, context \in Contexts :
        /\ WriterIdle
        /\ ~ValidMood(mood)
        /\ lastCall' = [op |-> "update_mood", mood |-> mood,
                        raised |-> "ValueError", status |-> 400,
                        before |-> [mood |-> moodFile, dir |-> dir]]
        /\ UNCHANGED <<raceVars, clientVars, rateVars, logVars, clock, syncVars, moodFile, thoughtsFile,
                       blogCacheFile, fileVars>>

\* update_blog_cache(posts, None) up to the creation of the temp file
MergeBegin ==
    \E post \in LoosePosts :
        LET new_posts == TrulyNew(<<post>>, blogCacheFile)
        IN  /\ WriterIdle
            /\ ~NothingNew(new_posts)
            /\ AtomicWriteBegin("update_blog_cache", "blog_cache",
                                MergePosts(new_posts, blogCacheFile))
            /\ UNCHANGED <<raceVars, clientVars, rateVars, logVars, clock, syncVars, stateVars, torn, seen>>

\* json.dump(data, tmp): one more write reaches the temp file
Dump ==
    /\ writer.pc = "dump" /\ seen.op = "none"
    /\ TmpFile(writer.tmp).written < DumpChunks
    /\ dir' = (dir \ {TmpFile(writer.tmp)}) \cup
              {[name |-> writer.tmp,
                written |-> TmpFile(writer.tmp).written + 1]}
    /\ UNCHANGED <<raceVars, clientVars, rateVars, logVars, clock, syncVars, stateVars, writer, torn, seen>>

\* The write has failed at statement `at`: the handler re-raises.
Raised(at) ==
    [pc |-> "raised", at |-> at, call |-> writer.call, path |-> writer.path,
     data |-> writer.data, original |-> writer.original, tmp |-> writer.tmp]

\* json.dump raises: tmp_path is not yet bound, so the handler unlinks
\* nothing; the exception reaches the caller.
DumpRaises ==
    /\ writer.pc = "dump" /\ seen.op = "none"
    /\ TmpFile(writer.tmp).written < DumpChunks
    /\ writer' = Raised("dump")
    /\ UNCHANGED <<raceVars, clientVars, rateVars, logVars, clock, syncVars, stateVars, dir, torn, seen>>

\* Leaving the with block raises (the flush or the close of the temp file):
\* tmp_path is bound, the handler unlinks the temp file and re-raises.
CloseRaises ==
    /\ writer.pc = "dump" /\ seen.op = "none"
    /\ TmpFile(writer.tmp).written = DumpChunks
    /\ dir' = dir \ {TmpFile(writer.tmp)}
    /\ writer' = Raised("close")
    /\ UNCHANGED <<raceVars, clientVars, rateVars, logVars, clock, syncVars, stateVars, torn, seen>>

\* The with block is left (the temp file is flushed and closed) before
\* os.replace is reached.
RenameReadyEarly(written) == TRUE

RenameReady(written) == written = DumpChunks

\* os.replace(tmp_path, filepath): the target now names the temp file's bytes.
\* update_mood returns; update_blog_cache goes on to the digest of
\* all_posts[:5].
Replace ==
    /\ writer.pc = "dump" /\ seen.op = "none"
    /\ RenameReady(TmpFile(writer.tmp).written)
    /\ moodFile' = IF writer.path = "mood" THEN writer.data ELSE moodFile
    /\ blogCacheFile' = IF writer.path = "blog_cache" THEN writer.data
                        ELSE blogCacheFile
    /\ torn' = IF TmpFile(writer.tmp).written = DumpChunks
               THEN torn \ {writer.path} ELSE torn \cup {writer.path}
    /\ dir' = dir \ {TmpFile(writer.tmp)}
    /\ writer' = IF writer.call = "update_blog_cache"
                 THEN [pc |-> "digest", call |-> writer.call,
                       path |-> "thoughts",
                       data |-> [text |-> RenderDigest(writer.data),
                                 mtime |-> clock],
                       original |-> thoughtsFile]
                 ELSE [pc |-> "idle"]
    /\ UNCHANGED <<raceVars, clientVars, rateVars, logVars, clock, syncVars, thoughtsFile, lastCall, seen>>

\* os.replace raises: the handler unlinks the temp file and re-raises.
ReplaceRaises ==
    /\ writer.pc = "dump" /\ seen.op = "none"
    /\ TmpFile(writer.tmp).written = DumpChunks
    /\ dir' = dir \ {TmpFile(writer.tmp)}
    /\ writer' = Raised("replace")
    /\ UNCHANGED <<raceVars, clientVars, rateVars, logVars, clock, syncVars, stateVars, torn, seen>>

\* The exception of _atomic_write_json reaches the caller: update_mood logs
\* and re-raises it, update_blog_cache logs it and returns False.
WriteFailed ==
    /\ writer.pc = "raised" /\ seen.op = "none"
    /\ writer' = [pc |-> "idle"]
    /\ UNCHANGED <<raceVars, clientVars, rateVars, logVars, clock, syncVars, stateVars, dir, torn, seen>>

\* open(self.thoughts_file, "w"): the digest file is emptied.
OpenThoughts ==
    /\ writer.pc = "digest" /\ seen.op = "none"
    /\ thoughtsFile' = [text |-> <<>>, mtime |-> clock]
    /\ torn' = torn \cup {"thoughts"}
    /\ writer' = [writer EXCEPT !.pc = "digest_write"]
    /\ UNCHANGED <<raceVars, clientVars, rateVars, logVars, clock, syncVars, moodFile, blogCacheFile, lastCall, dir,
                   seen>>

\* f.write(thoughts_text) and the close of the file
WriteThoughts ==
    /\ writer.pc = "digest_write" /\ seen.op = "none"
    /\ thoughtsFile' = writer.data
    /\ torn' = torn \ {"thoughts"}
    /\ writer' = [pc |-> "idle"]
    /\ UNCHANGED <<raceVars, clientVars, rateVars, logVars, clock, syncVars, moodFile, blogCacheFile, lastCall, dir,
                   seen>>

\* f.write raises: update_blog_cache returns False, the file stays empty.
WriteThoughtsRaises ==
    /\ writer.pc = "digest_write" /\ seen.op = "none"
    /\ writer' = [pc |-> "idle"]
    /\ UNCHANGED <<raceVars, clientVars, rateVars, logVars, clock, syncVars, stateVars, dir, torn, seen>>

\* The server process is killed in the middle of a write.
Crash ==
    /\ writer.pc \in {"dump", "digest", "digest_write"} /\ seen.op = "none"
    /\ writer' = [pc |-> "crashed", at |-> writer.pc, path |-> writer.path,
                  data |-> writer.data, original |-> writer.original,
                  written |-> IF writer.pc = "dump"
                              THEN TmpFile(writer.tmp).written ELSE 0]
    /\ UNCHANGED <<raceVars, clientVars, rateVars, logVars, clock, syncVars, stateVars, dir, torn, seen>>

\* The server starts again: _init_files finds the three files and writes none.
Restart ==
    /\ writer.pc = "crashed" /\ seen.op = "none"
    /\ writer' = [pc |-> "idle"]
    /\ UNCHANGED <<raceVars, clientVars, rateVars, logVars, clock, syncVars, stateVars, dir, torn, seen>>

\* Another process opens a state file and reads it to the end.
Read ==
    \E path \in {"mood", "blog_cache", "thoughts"} :
        /\ seen.op = "none"
        /\ seen' = [op |-> "read", path |-> path,
                    content |-> FileContent(path),
                    complete |-> path \notin torn,
                    versions |-> IF writer.pc # "idle" /\ writer.path = path
                                 THEN {writer.original, writer.data}
                                 ELSE {FileContent(path)}]
        /\ UNCHANGED <<raceVars, clientVars, rateVars, logVars, clock, syncVars, stateVars, dir, writer, torn>>

ReadDone ==
    /\ seen.op = "read"
    /\ seen' = [op |-> "none"]
    /\ UNCHANGED <<raceVars, clientVars, rateVars, logVars, clock, syncVars, stateVars, dir, writer, torn>>

InitFiles == InitSync

NextFiles ==
    \/ UpdateMoodBegin \/ UpdateMoodRejected \/ Return \/ MergeBegin \/ Dump \/ DumpRaises \/ CloseRaises
    \/ Replace \/ ReplaceRaises \/ WriteFailed \/ OpenThoughts \/ WriteThoughts \/ WriteThoughtsRaises
    \/ Crash \/ Restart \/ Read \/ ReadDone

SpecFiles == InitFiles /\ [][NextFiles]_vars

(***************************************************************************)
(* The reads of the state cache: a caller that sets the mood, merges posts  *)
(* and reads the mood and the thoughts while the files may be missing or    *)
(* unreadable.                                                              *)
(***************************************************************************)
\* update_mood(mood, context) as one step
UpdateMood ==
    \E mood \in MoodInputs, context \in Contexts :
        /\ NoCall
        /\ ValidMood(mood)
        /\ moodFile' = [mood |-> mood, updated_at |-> clock,
                        context |-> context]
        /\ UNCHANGED <<raceVars, clientVars, rateVars, logVars, clock, syncVars, thoughtsFile, blogCacheFile,
                       lastCall, fileVars>>

ReadMood ==
    \E fault \in MoodFaults :
        /\ NoCall
        /\ lastCall' = [op |-> "get_current_mood", fault |-> fault,
                        ret |-> GetCurrentMoodUnder(fault)]
        /\ UNCHANGED <<raceVars, clientVars, rateVars, logVars, clock, syncVars, moodFile, thoughtsFile,
                       blogCacheFile, fileVars>>

ReadThoughts ==
    \E thoughtsFault \in ThoughtsFaults, cacheFault \in BlogCacheFaults :
        /\ NoCall
        /\ lastCall' = [op |-> "get_recent_thoughts",
                        thoughtsFault |-> thoughtsFault,
                        cacheFault |-> cacheFault,
                        ret |-> GetRecentThoughtsUnder(thoughtsFault,
                                                       cacheFault)]
        /\ UNCHANGED <<raceVars, clientVars, rateVars, logVars, clock, syncVars, moodFile, thoughtsFile,
                       blogCacheFile, fileVars>>

NextReads == UpdateMood \/ Merge \/ ReadMood \/ ReadThoughts \/ Return \/ Tick

SpecReads == InitCache /\ [][NextReads]_vars

(***************************************************************************)
(* Startup: the server is stopped, state files are removed from the state  *)
(* directory while it is down, and StateManager is constructed again.      *)
(***************************************************************************)
StateFiles == {"mood", "thoughts", "blog_cache"}

\* _init_files without the existence test, for comparison
InitFileAlways(missing, path, content, default) == default

\* _init_files, for one file: `if not os.path.exists(path): write default`
InitFile(missing, path, content, default) ==
    IF path \in missing THEN default ELSE content

Up == writer.pc = "idle"

\* The running server sets the mood and merges a scraped post.
SetMood == Up /\ UpdateMood

MergeUp ==
    \E post \in LoosePosts :
        /\ Up /\ NoCall
        /\ UpdateBlogCache(<<post>>, "none", "none", FALSE)

\* The server is stopped between two requests.
Stop ==
    /\ Up /\ NoCall
    /\ writer' = [pc |-> "down", missing |-> {}]
    /\ UNCHANGED <<raceVars, clientVars, rateVars, logVars, clock, syncVars, stateVars, dir, torn,
                   seen>>

\* A state file is removed while the server is down.
Remove ==
    \E path \in StateFiles :
        /\ writer.pc = "down"
        /\ path \notin writer.missing
        /\ writer' = [writer EXCEPT !.missing = @ \cup {path}]
        /\ UNCHANGED <<raceVars, clientVars, rateVars, logVars, clock, syncVars, stateVars, dir,
                       torn, seen>>

\* StateManager(state_dir): __init__ and _init_files
Construct ==
    /\ writer.pc = "down"
    /\ moodFile' = InitFile(writer.missing, "mood", moodFile, DefaultMood)
    /\ thoughtsFile' = InitFile(writer.missing, "thoughts", thoughtsFile,
                                [text |-> <<>>, mtime |-> clock])
    /\ blogCacheFile' = InitFile(writer.missing, "blog_cache", blogCacheFile,
                                 <<>>)
    /\ lastCall' = [op |-> "init", missing |-> writer.missing,
                    before |-> [mood |-> moodFile, thoughts |-> thoughtsFile,
                                cache |-> blogCacheFile]]
    /\ writer' = [pc |-> "idle"]
    /\ UNCHANGED <<raceVars, clientVars, rateVars, logVars, clock, syncVars, dir, torn, seen>>

NextStartup ==
    SetMood \/ MergeUp \/ Stop \/ Remove \/ Construct \/ Return \/ Tick

SpecStartup == InitCache /\ [][NextStartup]_vars

(***************************************************************************)
(* The timestamps of the stored events: a client that stores events with   *)
(* and without a timestamp through memory.store and pushes events whose    *)
(* timestamp is absent or is not a number.                                 *)
(***************************************************************************)
\* Requests to memory.store: with a timestamp and without.
StampEvents ==
    {AppLaunch(0), AppLaunch(MaxTs),
     [type |-> "app_launch", data |-> [app |-> "maps"]]}

\* Events of a push, by the timestamp they carry: the schema takes any dict.
StampKinds == {"absent", "number", "text"}

StampPush(kind) ==
    CASE kind = "absent" -> [type |-> "note"]
      [] kind = "number" -> [type |-> "note", timestamp |-> MaxTs]
      [] kind = "text" -> [type |-> "note", timestamp |-> "soon"]

\* The index takes the metadata or, in a version that refuses a None value,
\* raises: addRaises is free.
StoreStamped ==
    \E event \in StampEvents, addRaises \in {0, IndexErrorLen} :
        /\ Idle
        /\ Len(collection) < MaxUploaded
        /\ StoreEvent(event, addRaises)

PushStamped ==
    \E kind \in StampKinds :
        /\ Idle
        /\ Len(collection) < MaxUploaded
        /\ SyncPush(<<StampPush(kind)>>, 0, IndexErrorLen, FALSE)

NextStamps == StoreStamped \/ PushStamped \/ Receive \/ Tick

SpecStamps == InitMemory /\ [][NextStamps]_vars

(***************************************************************************)
(* CommentaryService and SummarizationService: generation                  *)
(***************************************************************************)
\* The texts a generation returns.
NoDataText == "No data available"
GeneratedText == "generated"
CommentaryErrorText == "Error generating commentary"
SummaryFailedText == "Summary Generation Failed"

\* generate_commentary(days_of_data, weeks_of_blogs, ...); llmFails:
\* summarizer.generate_text raises. Gives [ret, tree].
GenerateCommentary(tree, posts, now, days, weeks, llmFails) ==
    LET logs == GatherRecentLogs(tree, now, days)
        blogs == GatherRecentBlogs(posts, now, weeks)
        none == logs.text = <<>> /\ blogs.text = <<>>
    IN  [ret |-> [commentary |-> IF none THEN NoDataText
                                 ELSE IF llmFails THEN CommentaryErrorText
                                 ELSE GeneratedText,
                  days_analyzed |-> days, weeks_analyzed |-> weeks,
                  log_count |-> IF none THEN 0 ELSE logs.count,
                  blog_count |-> IF none THEN 0 ELSE blogs.count],
         tree |-> logs.tree]

\* _save_summary(date_or_range, commentary): summary.md of the directory
SaveSummary(tree, start_date, end_date, commentary) ==
    [tree EXCEPT
       !.rangeDirs = IF start_date = end_date THEN @
                     ELSE @ \cup {[start |-> start_date, end |-> end_date]},
       !.dirs = IF start_date = end_date THEN @ \cup {start_date} ELSE @,
       !.summaries =
           {f \in @ : ~(f.start = start_date /\ f.end = end_date)}
             \cup {[start |-> start_date, end |-> end_date,
                    text |-> commentary]}]

\* _generate_with_llm without its handler, for comparison: the exception
\* reaches the caller.
GenerateWithLlmUnguarded(llmFails) ==
    IF llmFails THEN "Exception" ELSE GeneratedText

\* _generate_with_llm: the text generated, or the text of the handler
GenerateWithLlm(llmFails) ==
    IF llmFails THEN SummaryFailedText ELSE GeneratedText

\* _get_blog_posts_for_range(start_date, end_date)
GetBlogPostsForRange(posts, start_date, end_date) ==
    SelectSeq(posts, LAMBDA post :
        /\ Get(post, "published_at", 0) # 0
        /\ StrpTime(start_date) <= post.published_at
        /\ post.published_at <= StrpTime(end_date))

\* generate_daily_summary(date): [ret, tree]
GenerateDailySummary(tree, posts, date, llmFails) ==
    LET read == GetLogContent(tree, date)
        log_count == CountLines(GetLogContent(read.tree, date).content)
        blog_posts == GetBlogPostsForRange(posts, date, date)
        summary == GenerateWithLlm(llmFails)
    IN  IF read.content = <<>> /\ blog_posts = <<>>
        THEN [ret |-> [summary |-> NoDataText, log_count |-> 0,
                       blog_count |-> 0, date_range |-> <<date>>],
              tree |-> GetDailyLogPath(read.tree, date)]
        ELSE [ret |-> [summary |-> summary, log_count |-> log_count,
                       blog_count |-> Len(blog_posts),
                       date_range |-> <<date>>],
              tree |-> GetDailyLogPath(
                           SaveSummary(read.tree, date, date, summary), date)]

\* generate_weekly_summary(start_date, end_date): [ret, tree]; weekly.log of
\* the range directory is rewritten from the daily logs.
GenerateWeeklySummary(tree, posts, start_date, end_date, llmFails) ==
    LET weekly_dir == [start |-> start_date, end |-> end_date]
        made == [tree EXCEPT !.rangeDirs = @ \cup {weekly_dir}]
        daily_logs == GetDateRangeLogs(made, start_date, end_date)
        order == SortedDates(DOMAIN daily_logs.logs)
        blog_posts == GetBlogPostsForRange(posts, start_date, end_date)
        total_log_count ==
            SumSeq([i \in 1..Len(order) |->
                       CountLines(daily_logs.logs[order[i]])])
        summary == GenerateWithLlm(llmFails)
    IN  IF order = <<>> /\ blog_posts = <<>>
        THEN [ret |-> [summary |-> NoDataText, log_count |-> 0,
                       blog_count |-> 0,
                       date_range |-> <<start_date, end_date>>],
              tree |-> daily_logs.tree]
        ELSE [ret |-> [summary |-> summary,
                       log_count |-> total_log_count,
                       blog_count |-> Len(blog_posts),
                       date_range |-> <<start_date, end_date>>],
              tree |-> SaveSummary(daily_logs.tree, start_date, end_date,
                                   summary)]

(***************************************************************************)
(* The gatherers: a phone that appends text logs day after day, a scraper  *)
(* that adds posts, and a caller of the two gatherers.                     *)
(***************************************************************************)
\* The captured texts, as their lines: one line, one line and a line of
\* blanks (text that ends with a newline and blanks), two lines, no text.
Texts == {<<"e">>, <<"e", " ">>, <<"e", "e">>, <<"">>}

AppendLog ==
    \E day \in 0..clock, text \in Texts :
        /\ NoCall
        /\ Len(analysis.logs[DateStr(day)]) + Len(text) <= MaxLogLines
        /\ analysis' = AppendTextLog(analysis, day * 1000, text)
        /\ UNCHANGED <<clientVars, rateVars, raceVars, clock, syncVars, stateVars, fileVars>>

\* The scraper adds one post.
MergeScraped ==
    \E post \in LoosePosts :
        /\ NoCall
        /\ blogCacheFile = <<>>
        /\ UpdateBlogCache(<<post>>, "none", "none", FALSE)

GatherLogs ==
    \E days \in 0..MaxGatherDays :
        LET r == GatherRecentLogs(analysis, clock, days)
        IN  /\ NoCall
            /\ lastCall' = [op |-> "gather_logs", days |-> days,
                            now |-> clock, before |-> analysis,
                            ret |-> [text |-> r.text, count |-> r.count]]
            /\ analysis' = r.tree
            /\ UNCHANGED <<clientVars, rateVars, raceVars, clock, syncVars, moodFile, thoughtsFile,
                           blogCacheFile, fileVars>>

GatherBlogs ==
    \E weeks \in {0, 1} :
        LET r == GatherRecentBlogs(GetRecentThoughts.blog_posts, clock, weeks)
        IN  /\ NoCall
            /\ lastCall' = [op |-> "gather_blogs", weeks |-> weeks,
                            now |-> clock, before |-> analysis, ret |-> r]
            /\ UNCHANGED <<raceVars, clientVars, rateVars, logVars, clock, syncVars, moodFile,
                           thoughtsFile, blogCacheFile, fileVars>>

NextGather ==
    AppendLog \/ MergeScraped \/ GatherLogs \/ GatherBlogs \/ Return \/ Tick

SpecGather == InitCache /\ [][NextGather]_vars

(***************************************************************************)
(* Generation: the same phone and scraper, and a caller of the commentary  *)
(* and of the daily and weekly summaries, whose model may be unreachable.  *)
(* At most one summary is saved in a run.                                  *)
(***************************************************************************)
NoSummaryYet == analysis.summaries = {}

Commentary ==
    \E days \in {MaxGatherDays}, llmFails \in BOOLEAN :
        LET r == GenerateCommentary(analysis, GetRecentThoughts.blog_posts,
                                    clock, days, 1, llmFails)
        IN  /\ NoCall
            /\ NoSummaryYet
            /\ lastCall' = [op |-> "generate_commentary", llmFails |-> llmFails,
                            \* history: the days whose logs and the times
                            \* whose posts were asked for
                            logs |-> [from |-> clock - (days - 1), to |-> clock],
                            blogs |-> [from |-> clock - WeekDays, to |-> clock],
                            before |-> analysis, ret |-> r.ret]
            /\ analysis' = r.tree
            /\ UNCHANGED <<clientVars, rateVars, raceVars, clock, syncVars, moodFile, thoughtsFile,
                           blogCacheFile, fileVars>>

\* date None is yesterday; generate_today_summary asks for today.
DailySummary ==
    \E back \in {0, 1}, llmFails \in BOOLEAN :
        LET r == GenerateDailySummary(analysis, GetRecentThoughts.blog_posts,
                                      DateStr(clock - back), llmFails)
        IN  /\ NoCall
            /\ NoSummaryYet
            /\ lastCall' = [op |-> "generate_daily_summary",
                            llmFails |-> llmFails,
                            logs |-> [from |-> clock - back, to |-> clock - back],
                            blogs |-> [from |-> clock - back, to |-> clock - back],
                            before |-> analysis, ret |-> r.ret]
            /\ analysis' = r.tree
            /\ UNCHANGED <<clientVars, rateVars, raceVars, clock, syncVars, moodFile, thoughtsFile,
                           blogCacheFile, fileVars>>

WeeklySummary ==
    \E llmFails \in BOOLEAN :
        LET r == GenerateWeeklySummary(analysis, GetRecentThoughts.blog_posts,
                                       DateStr(clock - WeekBack),
                                       DateStr(clock), llmFails)
        IN  /\ NoCall
            /\ NoSummaryYet
            /\ lastCall' = [op |-> "generate_weekly_summary",
                            llmFails |-> llmFails,
                            logs |-> [from |-> clock - WeekBack, to |-> clock],
                            blogs |-> [from |-> clock - WeekBack, to |-> clock],
                            before |-> analysis, ret |-> r.ret]
            /\ analysis' = r.tree
            /\ UNCHANGED <<clientVars, rateVars, raceVars, clock, syncVars, moodFile, thoughtsFile,
                           blogCacheFile, fileVars>>

NextGenerate ==
    AppendLog \/ MergeScraped \/ Commentary \/ DailySummary \/ WeeklySummary
      \/ Return \/ Tick

SpecGenerate == InitCache /\ [][NextGenerate]_vars

(***************************************************************************)
(* Concurrent merges: the periodic task and the manual trigger run on one  *)
(* event loop; update_blog_cache yields only at its await of the           *)
(* summarizer, between the load of the cache and the merge.                *)
(***************************************************************************)
\* The existing posts a resumed call merges with: those it loaded before it
\* was suspended.
SnapshotReloaded(call) == blogCacheFile

Snapshot(call) == call.existing

HasReturned(c) == calls[c].pc = "returned"

\* The caller has fetched posts of which some url is not cached, and calls
\* update_blog_cache(posts, summarizer): the cache is loaded, new_posts is
\* computed and the call is suspended at summarizer.summarize_blog_posts.
CallUpdate(c) ==
    \E posts \in SeqsUpTo(LoosePosts, MaxBatch) :
        LET new_posts == TrulyNew(posts, blogCacheFile)
        IN  /\ calls[c].pc = "idle"
            /\ ~NothingNew(new_posts)
            /\ calls' = [calls EXCEPT ![c] =
                            [pc |-> "summarizing", posts |-> posts,
                             existing |-> blogCacheFile,
                             new_posts |-> new_posts]]
            /\ UNCHANGED <<clientVars, rateVars, logVars, clock, syncVars, stateVars, fileVars>>

\* The summaries arrive: the call merges, writes the cache and the digest,
\* and returns True.
ResumeUpdate(c) ==
    LET call == calls[c]
        added == SummarizeBlogPosts(call.new_posts, "llm")
        all_posts == MergePosts(added, Snapshot(call))
    IN  /\ call.pc = "summarizing"
        /\ blogCacheFile' = all_posts
        /\ thoughtsFile' = [text |-> RenderDigest(all_posts), mtime |-> clock]
        /\ calls' = [calls EXCEPT ![c] =
                        [pc |-> "returned", posts |-> call.posts,
                         existing |-> call.existing, added |-> added,
                         found |-> blogCacheFile,
                         seq |-> 1 + Cardinality({d \in Callers : HasReturned(d)})]]
        /\ UNCHANGED <<clientVars, rateVars, logVars, clock, syncVars, moodFile, lastCall, fileVars>>

\* Both callers have their results.
EndRound ==
    /\ \E c \in Callers : HasReturned(c)
    /\ \A c \in Callers : calls[c].pc # "summarizing"
    /\ calls' = [c \in Callers |-> [pc |-> "idle"]]
    /\ UNCHANGED <<clientVars, rateVars, logVars, clock, syncVars, stateVars, fileVars>>

InitRace == InitSync

NextRace == \E c \in Callers : CallUpdate(c) \/ ResumeUpdate(c) \/ EndRound

SpecRace == InitRace /\ [][NextRace]_vars

(***************************************************************************)
(* run_blog_scraper_task (main.py): the loop of the background task, one   *)
(* statement at a time. calls["task"] holds the statement it has reached.  *)
(***************************************************************************)
TaskPc == calls["task"].pc

\* The handler without the loop around it, for comparison: the task ends.
AfterErrorExits(step) == [pc |-> "exited", error |-> step]

\* `except Exception`: the error is logged and the loop goes on to its sleep.
AfterError(step) == [pc |-> "sleep", error |-> step]

\* The run ends without an error.
RunDone == [pc |-> "sleep", error |-> "none"]

\* posts = await app.state.blog_scraper.fetch_and_parse(), or the scraper
\* is disabled in the settings
TaskFetch ==
    \E outcome \in {"posts", "none", "raises", "disabled"},
       posts \in SeqsUpTo(LoosePosts, MaxBatch) \ {<<>>} :
        /\ TaskPc = "idle"
        /\ calls' = [calls EXCEPT !["task"] =
                       CASE outcome = "posts" ->
                              [pc |-> "fetched", posts |-> posts]
                         [] outcome = "raises" -> AfterError("fetch")
                         [] OTHER -> RunDone]
        /\ UNCHANGED <<clientVars, rateVars, logVars, clock, syncVars, stateVars, fileVars>>

\* existing_posts = await get_recent_thoughts() and the filter by url
TaskRead ==
    \E raises \in BOOLEAN :
        LET existing_urls == Urls(GetRecentThoughts.blog_posts)
            new_posts == SelectSeq(calls["task"].posts,
                                   LAMBDA post : post.url \notin existing_urls)
        IN  /\ TaskPc = "fetched"
            /\ calls' = [calls EXCEPT !["task"] =
                           IF raises THEN AfterError("read")
                           ELSE IF new_posts = <<>> THEN RunDone
                           ELSE [pc |-> "merge",
                                 posts |-> calls["task"].posts]]
            /\ UNCHANGED <<clientVars, rateVars, logVars, clock, syncVars, stateVars,
                           fileVars>>

\* success = await update_blog_cache(posts, summarizer=app.state.summarizer)
TaskMerge ==
    \E fail \in {"none", "cache"} :
        /\ TaskPc = "merge" /\ NoCall
        /\ UpdateBlogCache(calls["task"].posts, "llm", fail, FALSE)

\* update_blog_cache raises
TaskMergeRaises ==
    /\ TaskPc = "merge" /\ NoCall
    /\ calls' = [calls EXCEPT !["task"] = AfterError("merge")]
    /\ UNCHANGED <<clientVars, rateVars, logVars, clock, syncVars, stateVars, fileVars>>

\* update_blog_cache has returned: the outcome is logged.
TaskMerged ==
    /\ TaskPc = "merge" /\ ~NoCall
    /\ calls' = [calls EXCEPT !["task"] = RunDone]
    /\ lastCall' = [op |-> "none"]
    /\ UNCHANGED <<clientVars, rateVars, logVars, clock, syncVars, moodFile, thoughtsFile,
                   blogCacheFile, fileVars>>

\* await asyncio.sleep(interval_seconds) returns and the loop starts again;
\* after is the error of the run before.
TaskWake ==
    /\ TaskPc = "sleep"
    /\ calls' = [calls EXCEPT !["task"] =
                   [pc |-> "idle", after |-> calls["task"].error]]
    /\ UNCHANGED <<clientVars, rateVars, logVars, clock, syncVars, stateVars, fileVars>>

TaskStep ==
    TaskFetch \/ TaskRead \/ TaskMerge \/ TaskMergeRaises \/ TaskMerged
      \/ TaskWake

NextTask == TaskStep \/ Tick

\* The event loop runs the task whenever it can go on.
SpecTask == InitCache /\ [][NextTask]_vars /\ WF_vars(TaskStep)

(***************************************************************************)
(* Claims on the sync coordinator (SpecSync).                              *)
(***************************************************************************)
PullDone == syncResp.op = "pull" /\ syncResp.status = 200
PushDone == syncResp.op = "push"

Ids(coll) == {coll[i].id : i \in 1..Len(coll)}

\* Stored events that come before coll[i] in "newest first": a larger timestamp,
\* or the same timestamp and stored earlier.
NewerThan(coll, i) ==
    {j \in 1..Len(coll) :
        \/ coll[j].timestamp > coll[i].timestamp
        \/ coll[j].timestamp = coll[i].timestamp /\ j < i}

\* The up-to-50 stored events with the largest timestamps.
Newest50 == {i \in 1..Len(collection) : Cardinality(NewerThan(collection, i)) < PullLimit}

Returned == {syncResp.recent_memories[k].id : k \in 1..Len(syncResp.recent_memories)}

\* C1 as claimed: for every cursor c, also c <= 0, pull returns exactly the events
\* among the 50 newest whose timestamp is greater than c.
C1_PullReturnsOnlyNewerThanCursor ==
    PullDone =>
        Returned = {collection[i].id : i \in
                      {j \in Newest50 :
                          collection[j].timestamp > syncResp.context.last_sync}}

\* C1 amended: for a cursor c > 0 pull returns exactly the events among the 50
\* newest whose timestamp is greater than c; for c <= 0 the cursor counts as not
\* given and pull returns all of the 50 newest events. Each event is returned
\* once, newest first, and the count reported is the number returned.
C1_PullFiltersPositiveCursor ==
    PullDone =>
        LET c == syncResp.context.last_sync
            got == syncResp.recent_memories
        IN  /\ Returned = {collection[i].id : i \in
                             {j \in Newest50 :
                                 c > 0 => collection[j].timestamp > c}}
            /\ Cardinality(Returned) = Len(got)
            /\ \A k \in 1..(Len(got) - 1) : got[k].timestamp >= got[k + 1].timestamp
            /\ syncResp.context.new_events_count = Len(got)

\* A pull with a positive cursor over more than 50 stored events that returns
\* some of the newest 50 and holds back others.
C1_Witness ==
    /\ PullDone
    /\ syncResp.context.last_sync > 0
    /\ Len(collection) > PullLimit
    /\ Len(syncResp.recent_memories) > 0
    /\ Len(syncResp.recent_memories) < PullLimit

\* C2: a push of n events gives n results, event_index 0..n-1 in order; every
\* well-formed event the index accepts is stored whatever failed before it;
\* stored_count and failed_count count the results, add up to n, and the
\* response is never a failure.
C2_PushReportsEveryItem ==
    PushDone =>
        LET n == Len(syncResp.request)
            res == syncResp.results
        IN  /\ Len(res) = n
            /\ \A i \in 1..n :
                 /\ res[i].event_index = i - 1
                 /\ res[i].success =
                      (~TypeMissing(syncResp.request[i]) /\ i # syncResp.fail_at)
            /\ syncResp.stored_count =
                 Cardinality({i \in 1..Len(res) : res[i].success})
            /\ syncResp.failed_count =
                 Cardinality({i \in 1..Len(res) : ~res[i].success})
            /\ syncResp.stored_count + syncResp.failed_count = n
            /\ syncResp.status = 201

\* A push in which an event fails and a later one is stored.
C2_Witness ==
    /\ PushDone
    /\ \E i, j \in 1..Len(syncResp.results) :
         /\ i < j
         /\ ~syncResp.results[i].success
         /\ syncResp.results[j].success

\* C3: a push appends exactly stored_count events; each successful result has
\* the id of a distinct event that is new in the store, and each failed one has
\* no id, an error of at most 100 characters and no event.
C3_PushStoresWhatItReports ==
    PushDone =>
        LET res == syncResp.results
            n0 == Len(storeBefore)
            new == SubSeq(collection, n0 + 1, Len(collection))
            ok == {i \in 1..Len(res) : res[i].success}
        IN  /\ Len(collection) = n0 + syncResp.stored_count
            /\ SubSeq(collection, 1, n0) = storeBefore
            /\ \A i \in ok : res[i].id # None /\ res[i].id \notin Ids(storeBefore)
            /\ \A i, j \in ok : res[i].id = res[j].id => i = j
            /\ Ids(new) = {res[i].id : i \in ok}
            /\ Cardinality(Ids(new)) = Len(new)
            /\ \A i \in 1..Len(res) :
                 ~res[i].success =>
                   /\ res[i].id = None
                   /\ res[i].error.len <= ErrorMaxLen
                   /\ res[i].error.len > 0

\* A push with a stored event and an index failure whose message was cut.
C3_Witness ==
    /\ PushDone
    /\ syncResp.stored_count > 0
    /\ \E i \in 1..Len(syncResp.results) :
         /\ ~syncResp.results[i].success
         /\ syncResp.results[i].error.kind = "ChromaError"
         /\ syncResp.results[i].error.len = ErrorMaxLen

\* The second push of a batch of k events of which both pushes stored all.
BothStoredAll ==
    /\ PushDone
    /\ syncResp.retry
    /\ syncResp.stored_count = Len(syncResp.request)
    /\ Cardinality(syncResp.first_ids) = Len(syncResp.request)

\* C4: pushing a batch of k valid events twice leaves 2k more events in the
\* store; the second push gives k fresh ids, none of them an id of the first
\* push, and no stored event is removed or merged.
C4_RepushDuplicates ==
    BothStoredAll =>
        LET k == Len(syncResp.request)
            second == ResultIds(syncResp.results)
        IN  /\ Len(collection) = syncResp.first_before + 2 * k
            /\ Cardinality(Ids(collection)) = Len(collection)
            /\ Cardinality(second) = k
            /\ second \cap syncResp.first_ids = {}
            /\ second \cap Ids(storeBefore) = {}
            /\ syncResp.first_ids \cup second \subseteq Ids(collection)
            /\ SubSeq(collection, 1, Len(storeBefore)) = storeBefore

\* A second push of a batch, with events stored before the first.
C4_Witness ==
    /\ BothStoredAll
    /\ syncResp.first_before > 0

(***************************************************************************)
(* Claims on the blog cache (SpecCache).                                   *)
(***************************************************************************)
CallDone == lastCall.op = "update_blog_cache"

\* The merged list the call sorted: new_posts + existing_posts.
Merged == lastCall.added \o lastCall.before.cache

Count(s, post) == Len(SelectSeq(s, LAMBDA q : q = post))

Posts(s) == {s[i] : i \in 1..Len(s)}

OldestKept == CHOOSE t \in {p.scraped_at : p \in Posts(blogCacheFile)} :
                  \A p \in Posts(blogCacheFile) : t <= p.scraped_at

\* C5: after any sequence of update_blog_cache calls, lists with a repeated
\* url included, no two posts of blog_cache.json share a url.
C5_CacheUrlsDistinct ==
    Cardinality(Urls(blogCacheFile)) = Len(blogCacheFile)

\* C6: the cache never holds more than 50 posts; a call that writes it keeps
\* min(50, merged) posts of the merged list, and every post it drops was
\* scraped no later than every post it keeps.
C6_CacheKeepsNewestFifty ==
    /\ Len(blogCacheFile) <= CacheCap
    /\ (CallDone /\ lastCall.wrote) =>
          /\ Len(blogCacheFile) = Min(CacheCap, Len(Merged))
          /\ \A p \in Posts(Merged) :
                /\ Count(blogCacheFile, p) <= Count(Merged, p)
                /\ p.scraped_at > OldestKept =>
                       Count(blogCacheFile, p) = Count(Merged, p)
          /\ Posts(blogCacheFile) \subseteq Posts(Merged)

\* A list of more than 50 new posts was merged, and a post scraped before all
\* the kept ones was dropped.
C6_Witness ==
    /\ CallDone /\ lastCall.wrote
    /\ Len(lastCall.added) > CacheCap
    /\ Len(blogCacheFile) = CacheCap
    /\ \E p \in Posts(Merged) :
          p.scraped_at < OldestKept /\ p \notin Posts(blogCacheFile)

\* C7: when update_blog_cache(P) is called twice in succession and the first
\* call succeeded, the second call leaves the cache as it found it and gives
\* nothing to the summarizer.
C7_RepeatedCallIsIdempotent ==
    (CallDone /\ lastCall.again /\ lastCall.first_ret) =>
        /\ blogCacheFile = lastCall.before.cache
        /\ lastCall.given = <<>>

AllKnown ==
    /\ CallDone
    /\ \A i \in 1..Len(lastCall.posts) :
          lastCall.posts[i].url \in Urls(lastCall.before.cache)

\* C8: when every url of the list is already cached the call returns True,
\* gives nothing to the summarizer, writes neither blog_cache.json nor
\* recent_thoughts.txt, and the digest's updated_at stays as it was.
C8_NothingNewWritesNothing ==
    AllKnown =>
        /\ lastCall.ret
        /\ lastCall.given = <<>>
        /\ ~lastCall.wrote
        /\ blogCacheFile = lastCall.before.cache
        /\ thoughtsFile = lastCall.before.thoughts
        /\ GetRecentThoughts.updated_at = lastCall.before.thoughts.mtime

\* A non-empty list of cached urls was handed over with a summarizer, at a
\* time later than the digest's last write.
C8_Witness ==
    /\ AllKnown
    /\ lastCall.posts # <<>>
    /\ lastCall.summarizer # "none"
    /\ clock > lastCall.before.thoughts.mtime
    /\ lastCall.ret

(***************************************************************************)
(* Claims on the file writes (SpecFiles).                                  *)
(***************************************************************************)
JsonFiles == {"mood", "blog_cache"}

ReadOf(paths) == seen.op = "read" /\ seen.path \in paths

\* The server was killed after json.dump and before os.replace.
CrashedBeforeRename ==
    /\ writer.pc = "crashed"
    /\ writer.at = "dump"

\* C9: a read of the mood file or of the post cache, whatever the write in
\* progress or interrupted, finds a whole document that is the previous or
\* the new version; a crash between the temp file's write and the rename
\* leaves the target with its original, whole content.
C9_JsonFilesNeverTorn ==
    /\ ReadOf(JsonFiles) => seen.complete /\ seen.content \in seen.versions
    /\ torn \cap JsonFiles = {}
    /\ CrashedBeforeRename /\ writer.path \in JsonFiles =>
          /\ FileContent(writer.path) = writer.original
          /\ writer.path \notin torn

\* The server was killed with the temp file fully written and not renamed,
\* the new document differs from the original, and the target is then read.
C9_Witness ==
    /\ CrashedBeforeRename
    /\ writer.written = DumpChunks
    /\ writer.data # writer.original
    /\ ReadOf({writer.path})
    /\ writer.path \in JsonFiles

\* C10: a read of the thoughts digest, at any point of a merge or after an
\* interrupted one, finds a whole digest, the previous or the new one, never
\* an emptied or partly written file in place of a previous digest that had
\* entries.
C10_DigestNeverTorn ==
    (ReadOf({"thoughts"}) /\ \A v \in seen.versions : v.text # <<>>) =>
        /\ seen.complete
        /\ seen.content.text # <<>>
        /\ seen.content \in seen.versions

\* C11: whenever _atomic_write_json has failed, at the dump, at the close or
\* at the rename, and re-raised, the target holds its previous content and
\* the temp file of the write is no longer in the state directory.
C11_FailedWriteCleansUp ==
    writer.pc = "raised" =>
        /\ FileContent(writer.path) = writer.original
        /\ writer.path \notin torn
        /\ \A t \in dir : t.name # writer.tmp

(***************************************************************************)
(* Claims on concurrent merges (SpecRace).                                 *)
(***************************************************************************)
\* Both calls have returned, they loaded the same cache, and c returned first.
RacedBefore(c, d) ==
    /\ HasReturned(c) /\ HasReturned(d)
    /\ calls[c].existing = calls[d].existing
    /\ calls[c].seq < calls[d].seq

\* C12: two calls suspended at the summarizer with the same loaded cache are
\* not excluded from each other: the call that resumes later writes the merge
\* of its own new posts with that stale cache, so every post that only the
\* earlier call added is missing from the final cache.
C12_LaterMergeOverwritesEarlier ==
    \A c \in Callers, d \in Callers :
        RacedBefore(c, d) =>
            /\ calls[d].found = MergePosts(calls[c].added, calls[c].existing)
            /\ blogCacheFile = MergePosts(calls[d].added, calls[d].existing)
            /\ \A i \in 1..Len(calls[c].added) :
                  calls[c].added[i].url \notin Urls(calls[d].added) =>
                      calls[c].added[i].url \notin Urls(blogCacheFile)

\* The periodic task and the trigger both returned after loading the same
\* cache, and a post the earlier one wrote is not in the final cache.
C12_Witness ==
    \E c \in Callers, d \in Callers :
        /\ RacedBefore(c, d)
        /\ \E i \in 1..Len(calls[c].added) :
              /\ calls[c].added[i].url \in Urls(calls[d].found)
              /\ calls[c].added[i].url \notin Urls(blogCacheFile)

(***************************************************************************)
(* Claims on the mood (SpecFiles).                                         *)
(***************************************************************************)
MoodRejected == lastCall.op = "update_mood"

\* C13: update_mood with a mood outside VALID_MOODS raises a validation error
\* before any write: no write is started, no temp file appears, the mood file
\* never holds such a mood, and get_current_mood still returns the mood,
\* context and updated_at persisted before the call.
C13_InvalidMoodWritesNothing ==
    /\ moodFile.mood \in VALID_MOODS
    /\ MoodRejected =>
          /\ lastCall.mood \notin VALID_MOODS
          /\ lastCall.raised = "ValueError" /\ lastCall.status = 400
          /\ writer.pc = "idle"
          /\ dir = lastCall.before.dir
          /\ GetCurrentMood = lastCall.before.mood
          /\ ReadOf({"mood"}) => seen.content = lastCall.before.mood

\* A mood with a context was persisted, an invalid mood was then rejected,
\* and the mood file is read again.
C13_Witness ==
    /\ MoodRejected
    /\ lastCall.before.mood.context # ""
    /\ lastCall.before.mood.updated_at > 0
    /\ ReadOf({"mood"})

(***************************************************************************)
(* Claims on the event store and the memory routes (SpecMemory).           *)
(***************************************************************************)
StoreDone  == syncResp.op = "store"
SearchDone == syncResp.op = "search"
RecentDone == syncResp.op = "recent"
DeleteDone == syncResp.op = "delete"

\* The event has no type, or an empty one.
NoType(event) == "type" \notin DOMAIN event \/ event.type = ""

\* C14: insert of an event with a missing or empty type raises the
\* validation error, gives no id and adds nothing; insert gives an id exactly
\* when it added the document of that id; through memory.store such an event
\* is answered with a client error and the store is unchanged, and 201
\* carries the id of the one document added.
C14_InsertValidatesType ==
    /\ \A event \in MemEvents \cup LooseEvents, addRaises \in {0, IndexErrorLen} :
          LET r == Insert(uuidCount, event, Device, clock, addRaises)
          IN  /\ NoType(event) =>
                    /\ ~r.ok /\ r.raised = ValueError
                    /\ r.id = None /\ r.added = <<>>
              /\ r.ok => /\ r.id # None
                         /\ Len(r.added) = 1 /\ r.added[1].id = r.id
                         /\ r.id \notin Ids(collection)
              /\ ~r.ok => r.id = None /\ r.added = <<>>
    /\ StoreDone =>
          /\ NoType(syncResp.request) =>
                syncResp.status \in {400, 422} /\ collection = storeBefore
          /\ syncResp.status = 201 =>
                /\ Len(collection) = Len(storeBefore) + 1
                /\ SubSeq(collection, 1, Len(storeBefore)) = storeBefore
                /\ collection[Len(collection)].id = syncResp.id
                /\ syncResp.id \notin Ids(storeBefore)
          /\ syncResp.status # 201 =>
                "id" \notin DOMAIN syncResp /\ collection = storeBefore

\* An event with an empty type was sent to memory.store while the store
\* held events.
C14_Witness ==
    /\ StoreDone
    /\ "type" \in DOMAIN syncResp.request /\ NoType(syncResp.request)
    /\ storeBefore # <<>>

\* C15: a search without filter whose query is the rendered text of a stored
\* event succeeds, and its result list holds that event's id with the top
\* similarity score.
C15_SearchFindsInsertedText ==
    (SearchDone /\ syncResp.filters = <<>>) =>
        \A i \in 1..Len(collection) :
            collection[i].text = syncResp.query =>
                /\ syncResp.status = 200
                /\ \E k \in 1..Len(syncResp.results) :
                      /\ \E j \in 1..Len(collection) :
                            /\ collection[j].text = syncResp.query
                            /\ collection[j].id = syncResp.results[k].id
                      /\ \A m \in 1..Len(syncResp.results) :
                            syncResp.results[m].similarity_score
                                <= syncResp.results[k].similarity_score

\* C16: memory.search never ends in an error: every search is answered 200.
C16_SearchAlwaysSucceeds ==
    SearchDone => syncResp.status = 200

\* A constraint of the search filter: <<>> when it is not supplied.
Supplied(name) ==
    IF syncResp.filters = <<>> THEN <<>> ELSE syncResp.filters[1][name]

\* C17: every event the index selects for a search satisfies all the
\* constraints the filter supplies (type equal, timestamp >= timestamp_min,
\* timestamp <= timestamp_max, 0 included), and a filter without constraints
\* restricts nothing.
C17_SearchHonoursFilter ==
    SearchDone =>
        /\ \A k \in 1..Len(syncResp.selected) :
              /\ Supplied("type") # <<>> =>
                    syncResp.selected[k].type = Supplied("type")[1]
              /\ Supplied("timestamp_min") # <<>> =>
                    syncResp.selected[k].timestamp >= Supplied("timestamp_min")[1]
              /\ Supplied("timestamp_max") # <<>> =>
                    syncResp.selected[k].timestamp <= Supplied("timestamp_max")[1]
        /\ (\A name \in {"type", "timestamp_min", "timestamp_max"} :
                Supplied(name) = <<>>) =>
              Len(syncResp.selected) = Min(syncResp.limit, Len(collection))

\* The events of coll a type filter admits: an absent or empty filter
\* restricts nothing.
Filtered(coll, type_filter) ==
    SelectSeq(coll, LAMBDA d :
        type_filter \in {None, <<"">>} \/ <<d.type>> = type_filter)

\* The number of events of coll with a timestamp above t / not below t.
NewerCount(coll, t) == Len(SelectSeq(coll, LAMBDA d : d.timestamp > t))
NotOlderCount(coll, t) == Len(SelectSeq(coll, LAMBDA d : d.timestamp >= t))

\* page and total are the slice [offset, offset+limit) of the events of coll
\* admitted by type_filter in descending timestamp order, and their number.
IsPage(coll, limit, offset, type_filter, page, total) ==
    LET all == Filtered(coll, type_filter)
    IN  /\ total = Len(all)
        /\ Len(page) = LET rest == Min(limit, Len(all) - offset)
                      IN  IF rest < 0 THEN 0 ELSE rest
        /\ \A k \in 1..Len(page) :
              /\ \E i \in 1..Len(all) : page[k] = RecentEvent(all[i])
              /\ \A m \in 1..Len(page) : page[m].id = page[k].id => m = k
              /\ NewerCount(all, page[k].timestamp) <= offset + k - 1
              /\ NotOlderCount(all, page[k].timestamp) >= offset + k

\* C18: the page memory.recent serves is what recent(limit, offset,
\* type_filter) returns for the limit and offset served: the slice
\* [offset, offset+limit) of all the events the type filter admits in
\* descending timestamp order, with total the number of those events whatever
\* the slice.
C18_RecentPagesFilteredSet ==
    RecentDone =>
        /\ IsPage(collection, ServedLimit(syncResp.limit),
                  ServedOffset(syncResp.offset), syncResp.type_filter,
                  syncResp.results, syncResp.total)
        /\ syncResp.count = Len(syncResp.results)

\* memory.recent with limit 10 and offset 45 over 50 admitted events of
\* different timestamps served the 5 oldest of them with total 50.
C18_Witness ==
    /\ RecentDone
    /\ syncResp.limit = 10 /\ syncResp.offset = PullLimit - 5
    /\ syncResp.total = PullLimit /\ syncResp.count = 5
    /\ syncResp.results[5].timestamp < syncResp.results[1].timestamp
    /\ NewerCount(collection, syncResp.results[5].timestamp) = PullLimit - 1

\* A limit clamped into [1, RecentMax], and an offset clamped to 0.
ClampedLimit(limit) ==
    IF limit < 1 THEN 1 ELSE IF limit > RecentMax THEN RecentMax ELSE limit
ClampedOffset(offset) == IF offset < 0 THEN 0 ELSE offset

\* C19: memory.recent rejects no limit and no offset, and serves the page of
\* the limit clamped into [1,100] (1 for a limit below 1, 100 for a limit
\* above 100) and of the offset clamped to 0.
C19_RecentClampsLimit ==
    RecentDone =>
        /\ syncResp.status = 200
        /\ IsPage(collection, ClampedLimit(syncResp.limit),
                  ClampedOffset(syncResp.offset), syncResp.type_filter,
                  syncResp.results, syncResp.total)

\* The ids of the events that were stored and have been deleted since: ids
\* are given out in order and only to stored events.
Gone == {Uuid(n) : n \in 1..uuidCount} \ Ids(collection)

\* The ids of the events a response lists.
Listed ==
    IF PullDone THEN Ids(syncResp.recent_memories)
    ELSE IF RecentDone THEN Ids(syncResp.results)
    ELSE IF SearchDone THEN Ids(syncResp.selected) \cup Ids(syncResp.results)
    ELSE {}

\* C20: memory.delete of an id that is not stored answers 404 and leaves the
\* store as it was; memory.delete of a stored id answers 204 and removes the
\* event of that id and no other; no recent, search or pull result lists the
\* id of a deleted event.
C20_DeleteRemovesExactlyOne ==
    /\ DeleteDone =>
          IF syncResp.event_id \in Ids(storeBefore)
          THEN /\ syncResp.status = 204
               /\ collection =
                      SelectSeq(storeBefore,
                                LAMBDA d : d.id # syncResp.event_id)
               /\ Len(collection) = Len(storeBefore) - 1
          ELSE /\ syncResp.status = 404
               /\ collection = storeBefore
    /\ Listed \cap Gone = {}

\* After an event was deleted from a store of several events, a recent or
\* pull result lists events that were stored before it and after it.
C20_Witness ==
    /\ PullDone \/ RecentDone
    /\ \E gone \in Gone, before \in Listed, after \in Listed :
          before[1] < gone[1] /\ gone[1] < after[1]

(***************************************************************************)
(* Further claims on the blog cache (SpecCache).                           *)
(***************************************************************************)
\* The posts of a list whose url no post of the cache has.
NotYetCached(posts, cache) ==
    SelectSeq(posts, LAMBDA post :
        \A i \in 1..Len(cache) : cache[i].url # post.url)

\* C21: a call with a summarizer hands it exactly the posts of the list
\* whose url is not yet cached, and every post of the rewritten cache whose
\* url was cached before the call is a post of the cache before the call,
\* summary field included.
C21_SummarizesOnlyNewPosts ==
    CallDone =>
        /\ lastCall.summarizer # "none" =>
              lastCall.given = NotYetCached(lastCall.posts, lastCall.before.cache)
        /\ \A i \in 1..Len(blogCacheFile) :
              blogCacheFile[i].url \in Urls(lastCall.before.cache) =>
                  blogCacheFile[i] \in Posts(lastCall.before.cache)

\* A list with a new post and a post cached without summary was merged with a
\* summarizer, and the cache was rewritten.
C21_Witness ==
    /\ CallDone /\ lastCall.wrote /\ lastCall.summarizer # "none"
    /\ Len(lastCall.given) = 1 /\ Len(lastCall.posts) = 2
    /\ \E i \in 1..Len(blogCacheFile) :
          /\ blogCacheFile[i].url \in Urls(lastCall.posts)
          /\ blogCacheFile[i].url \in Urls(lastCall.before.cache)
          /\ "summary" \notin DOMAIN blogCacheFile[i]

\* A call that added at least one post and returned True.
AddedAndSucceeded == CallDone /\ lastCall.ret /\ lastCall.added # <<>>

\* C22: after a call that added at least one post and returned True, the
\* digest has one entry per post of the first min(5, n) posts of the cache
\* just written, in cache order, each made of that post's title, its summary
\* (the first 200 characters of the body for a post without summary) and its
\* link, and nothing else.
C22_DigestRendersTopFive ==
    AddedAndSucceeded =>
        /\ Len(thoughtsFile.text) = Min(DigestPosts, Len(blogCacheFile))
        /\ \A i \in 1..Len(thoughtsFile.text) :
              LET entry == thoughtsFile.text[i]
                  post == blogCacheFile[i]
              IN  /\ DOMAIN entry = {"title", "summary", "url"}
                  /\ entry.title = post.title
                  /\ entry.url = post.url
                  /\ entry.summary =
                        IF "summary" \in DOMAIN post THEN post.summary
                        ELSE [of |-> post.body.of,
                              len |-> Min(post.body.len, BodyPreview)]

\* A call added a post to a cache that had a digest; the cache now leads with
\* the new post and the digest no longer starts with the entry it started
\* with.
C22_Witness ==
    /\ AddedAndSucceeded
    /\ lastCall.before.thoughts.text # <<>>
    /\ Len(blogCacheFile) >= 2
    /\ thoughtsFile.text[1] # lastCall.before.thoughts.text[1]
    /\ thoughtsFile.text[1].url = lastCall.added[1].url

\* A post of the cache that the call added / that was cached before it.
IsNew(post) == post.url \notin Urls(lastCall.before.cache)

\* C29: after a call that wrote the cache, the posts are in order of
\* scraped_at, newest first, and of two posts with the same scraped_at the
\* one the call added stands before the one that was cached before (stated
\* on neighbours, which gives it for every pair of an ordered list).
C29_CacheNewestFirst ==
    (CallDone /\ lastCall.wrote) =>
        \A i \in 1..(Len(blogCacheFile) - 1) :
            LET first == blogCacheFile[i]
                next == blogCacheFile[i + 1]
            IN  /\ first.scraped_at >= next.scraped_at
                /\ first.scraped_at = next.scraped_at
                      => ~(~IsNew(first) /\ IsNew(next))

\* A post was added to a cache that held a post scraped at the same time and
\* a post scraped earlier, and stands first.
C29_Witness ==
    /\ CallDone /\ lastCall.wrote
    /\ Len(blogCacheFile) >= 3
    /\ IsNew(blogCacheFile[1])
    /\ ~IsNew(blogCacheFile[2])
    /\ blogCacheFile[2].scraped_at = blogCacheFile[1].scraped_at
    /\ blogCacheFile[Len(blogCacheFile)].scraped_at < blogCacheFile[1].scraped_at

(***************************************************************************)
(* Claims on the blog cache under faults (SpecCacheFaults).                *)
(***************************************************************************)
\* A step of the call raised.
StepFailed == lastCall.failed # "none"

\* The call ended by returning a flag.
ReturnedFlag == "ret" \in DOMAIN lastCall /\ lastCall.ret \in BOOLEAN

\* C23: update_blog_cache ends by returning a flag, never by an exception;
\* the flag is False whenever loading the cache, summarizing, writing the
\* cache or writing the digest failed, and True only when every step
\* completed.
C23_AnyFailureReturnsFalse ==
    CallDone =>
        /\ ReturnedFlag
        /\ StepFailed => ~lastCall.ret
        /\ lastCall.ret => ~StepFailed

\* C23, amended: update_blog_cache ends by returning a flag, never by an
\* exception; the flag is False whenever the summarizer, the write of the
\* cache or the write of the digest raised, and then the cache holds what it
\* held unless the digest write was what failed; a cache file that cannot be
\* read or parsed is taken as an empty cache and not reported; True is
\* returned only when nothing was to be added or both the cache and the
\* digest of its first posts were written.
C23_WriteFailureReturnsFalse ==
    CallDone =>
        /\ ReturnedFlag
        /\ lastCall.failed \in {"summarize", "cache", "thoughts_open",
                                "thoughts_write"} => ~lastCall.ret
        /\ lastCall.failed \in {"summarize", "cache"} =>
              blogCacheFile = lastCall.before.cache
        /\ lastCall.failed \in {"none", "load"} => lastCall.ret
        /\ lastCall.ret =>
              \/ ~lastCall.wrote
                   /\ blogCacheFile = lastCall.before.cache
                   /\ thoughtsFile = lastCall.before.thoughts
              \/ /\ lastCall.wrote
                 /\ Posts(lastCall.added) \cap Posts(blogCacheFile) # {}
                 /\ thoughtsFile.text = RenderDigest(blogCacheFile)
        /\ (lastCall.failed = "load" /\ lastCall.wrote) =>
              Posts(blogCacheFile) \subseteq Posts(lastCall.added)

\* The digest write failed after the cache was rewritten, and the call
\* returned False.
C23_Witness ==
    /\ CallDone
    /\ lastCall.failed = "thoughts_write"
    /\ ~lastCall.ret
    /\ blogCacheFile # lastCall.before.cache

(***************************************************************************)
(* Claims on the reads of the state cache (SpecReads).                     *)
(***************************************************************************)
MoodRead == lastCall.op = "get_current_mood"
ThoughtsRead == lastCall.op = "get_recent_thoughts"

\* C24: get_current_mood never raises, and returns the mood file's content,
\* or {mood: neutral, updated_at: 0, context: ""} when the file is missing or
\* cannot be read or parsed; get_recent_thoughts never raises, and each of
\* thoughts, blog_posts and updated_at is the file's value or the empty
\* value (no text, no posts, 0), the empty value for whatever could not be
\* read and the file's value for everything when nothing fails.
C24_ReadsNeverRaise ==
    /\ MoodRead =>
          /\ "raised" \notin DOMAIN lastCall.ret
          /\ lastCall.ret =
                IF lastCall.fault = "none" THEN moodFile
                ELSE [mood |-> "neutral", updated_at |-> 0, context |-> ""]
    /\ ThoughtsRead =>
          /\ DOMAIN lastCall.ret = {"thoughts", "blog_posts", "updated_at"}
          /\ lastCall.ret.thoughts \in {thoughtsFile.text, <<>>}
          /\ lastCall.ret.blog_posts \in {blogCacheFile, <<>>}
          /\ lastCall.ret.updated_at \in {thoughtsFile.mtime, 0}
          /\ lastCall.thoughtsFault \in {"missing", "raises"} =>
                lastCall.ret.thoughts = <<>> /\ lastCall.ret.updated_at = 0
          /\ lastCall.thoughtsFault = "mtime_raises" =>
                lastCall.ret.updated_at = 0
          /\ lastCall.cacheFault # "none" => lastCall.ret.blog_posts = <<>>
          /\ (lastCall.thoughtsFault = "none" /\ lastCall.cacheFault = "none")
                => /\ lastCall.ret.thoughts = thoughtsFile.text
                   /\ lastCall.ret.blog_posts = blogCacheFile
                   /\ lastCall.ret.updated_at = thoughtsFile.mtime

\* The mood file held a mood that was set, its read raised, and the default
\* mood was returned.
C24_Witness ==
    /\ MoodRead
    /\ lastCall.fault = "raises"
    /\ moodFile.mood # "neutral" /\ moodFile.updated_at > 0
    /\ lastCall.ret.mood = "neutral" /\ lastCall.ret.updated_at = 0

(***************************************************************************)
(* Claims on the read path while the index fails (SpecOutage).             *)
(***************************************************************************)
\* C25: the read path answers without an error whether or not the index
\* fails: every pull is answered 200 with the current state of the state
\* cache and a list of stored events, and a recent or a search during which
\* the index failed is answered 200 with an empty result.
C25_ReadPathDegrades ==
    /\ syncResp.op = "pull" =>
          /\ syncResp.status = 200
          /\ syncResp.current_state.mood = GetCurrentState.mood
          /\ Ids(syncResp.recent_memories) \subseteq Ids(collection)
    /\ (syncResp.op \in {"recent", "search"} /\ "index" \in DOMAIN syncResp) =>
          /\ syncResp.status = 200
          /\ syncResp.results = <<>>

(***************************************************************************)
(* Claims on the stored events (SpecSync).                                 *)
(***************************************************************************)
\* C30: in every state of the event store every stored event has a
\* non-empty type, no two stored events have the same id, and every id is
\* one the server generated at an insert, never the id a client put into the
\* event.
C30_StoredEventsWellFormed ==
    /\ \A i \in 1..Len(collection) :
          /\ "type" \in DOMAIN collection[i] /\ collection[i].type # ""
          /\ \E n \in 1..uuidCount : collection[i].id = Uuid(n)
          /\ collection[i].id # ClientId
    /\ Cardinality(Ids(collection)) = Len(collection)

\* A push of an event carrying a client id, next to an event of empty type,
\* was stored into a store that held events.
C30_Witness ==
    /\ syncResp.op = "push"
    /\ storeBefore # <<>>
    /\ Len(collection) > Len(storeBefore)
    /\ \E i \in 1..Len(syncResp.request) :
          /\ "id" \in DOMAIN syncResp.request[i]
          /\ syncResp.results[i].success
    /\ \E i \in 1..Len(syncResp.request) :
          /\ "type" \in DOMAIN syncResp.request[i]
          /\ syncResp.request[i].type = ""

(***************************************************************************)
(* Claims on the gatherers (SpecGather).                                   *)
(***************************************************************************)
LogsGathered == lastCall.op = "gather_logs"
BlogsGathered == lastCall.op = "gather_blogs"

\* The days from..to that have a log with text in a tree.
DaysWithLog(tree, from, to) ==
    {day \in DayRange :
        /\ from <= day /\ day <= to
        /\ \E k \in 1..Len(tree.logs[DateStr(day)]) :
              tree.logs[DateStr(day)][k] \notin {"", " "}}

\* The number of lines with text in the logs of those days.
LinesWithText(tree, from, to) ==
    Cardinality({<<day, k>> \in DayRange \X (1..MaxLogLines) :
                    /\ day \in DaysWithLog(tree, from, to)
                    /\ k <= Len(tree.logs[DateStr(day)])
                    /\ tree.logs[DateStr(day)][k] \notin {"", " "}})

\* C26: _gather_recent_logs(days) gives one section for each day of
\* [today - (days - 1), today] that has a log and none for the others, the
\* section of a day made of the header of its date and of its log, the
\* sections in ascending order of their days, and as count the number of
\* lines with text over those logs.
C26_GatherReadsInclusiveWindow ==
    LogsGathered =>
        LET from == lastCall.now - (lastCall.days - 1)
            with == DaysWithLog(lastCall.before, from, lastCall.now)
            text == lastCall.ret.text
        IN  /\ Len(text) = Cardinality(with)
            /\ \A i \in 1..Len(text) :
                  \E day \in with :
                      /\ text[i].header = DateStr(day)
                      /\ text[i].content = lastCall.before.logs[DateStr(day)]
                      /\ Cardinality({other \in with : other < day}) = i - 1
            /\ lastCall.ret.count =
                  LinesWithText(lastCall.before, from, lastCall.now)

\* Two days were gathered across the end of the year: the last has a log
\* and gives the only section, the day before has none, the log of the day
\* before that lies outside the window, and a line of blanks was not counted.
C26_Witness ==
    /\ LogsGathered
    /\ lastCall.days = 2 /\ lastCall.now = MaxClock
    /\ Len(lastCall.ret.text) = 1
    /\ lastCall.ret.text[1].header = DateStr(MaxClock)
    /\ lastCall.before.logs[DateStr(MaxClock - 1)] = <<>>
    /\ lastCall.before.logs[DateStr(MaxClock - 2)] # <<>>
    /\ lastCall.ret.count > 0
    /\ lastCall.ret.count < Len(lastCall.ret.text[1].content)

\* C27: a gather creates, changes and deletes nothing under the analysis
\* directory: after _gather_recent_logs or _gather_recent_blogs the
\* directories and the files are those from before the call.
C27_GatherIsPureRead ==
    (LogsGathered \/ BlogsGathered) => analysis = lastCall.before

(***************************************************************************)
(* Claims on the generation (SpecGenerate).                                *)
(***************************************************************************)
Generations ==
    {"generate_commentary", "generate_daily_summary",
     "generate_weekly_summary"}

\* A generation was called while the model could not be reached.
GenerationFailed ==
    /\ lastCall.op \in Generations
    /\ lastCall.llmFails

\* The text of the response.
ResponseText ==
    IF lastCall.op = "generate_commentary"
    THEN lastCall.ret.commentary ELSE lastCall.ret.summary

\* The text that says that the generation failed.
FailedText ==
    IF lastCall.op = "generate_commentary"
    THEN CommentaryErrorText ELSE SummaryFailedText

\* The number of cached posts published from..to.
PostsPublished(from, to) ==
    Cardinality({i \in 1..Len(blogCacheFile) :
                    /\ blogCacheFile[i].published_at # 0
                    /\ from <= blogCacheFile[i].published_at
                    /\ blogCacheFile[i].published_at <= to})

\* C28: when the model cannot be reached, generate_commentary and the daily
\* and weekly summaries still answer: the counts of the log lines and of the
\* posts of the window are reported, the text says that the generation
\* failed (or, with no data at all, that there is no data), and the daily
\* logs are those from before the call.
C28_GenerationFailureGivesPlaceholder ==
    GenerationFailed =>
        LET log_count == LinesWithText(lastCall.before, lastCall.logs.from,
                                       lastCall.logs.to)
            blog_count == PostsPublished(lastCall.blogs.from,
                                         lastCall.blogs.to)
        IN  /\ lastCall.ret.log_count = log_count
            /\ lastCall.ret.blog_count = blog_count
            /\ ResponseText = IF log_count + blog_count = 0
                              THEN NoDataText ELSE FailedText
            /\ analysis.logs = lastCall.before.logs

\* A weekly summary failed over a week with log lines and a post: the text
\* that says so was returned with both counts, and saved as the summary.
C28_Witness ==
    /\ GenerationFailed
    /\ lastCall.op = "generate_weekly_summary"
    /\ lastCall.ret.summary = SummaryFailedText
    /\ lastCall.ret.log_count > 1
    /\ lastCall.ret.blog_count > 0
    /\ \E f \in analysis.summaries : f.text = SummaryFailedText

(***************************************************************************)
(* Claims on the startup (SpecStartup).                                    *)
(***************************************************************************)
Constructed == lastCall.op = "init"

\* C31: the construction of StateManager gives each state file that is
\* missing its default (mood neutral, empty digest, empty post cache) and
\* leaves each file that exists as it was.
C31_InitKeepsExistingFiles ==
    Constructed =>
        /\ moodFile = IF "mood" \in lastCall.missing
                      THEN [mood |-> "neutral", updated_at |-> 0,
                            context |-> ""]
                      ELSE lastCall.before.mood
        /\ IF "thoughts" \in lastCall.missing
           THEN thoughtsFile.text = <<>>
           ELSE thoughtsFile = lastCall.before.thoughts
        /\ blogCacheFile = IF "blog_cache" \in lastCall.missing THEN <<>>
                           ELSE lastCall.before.cache

\* The server was started again over a directory without its mood file: the
\* mood set before is gone, the post cache and the digest of before are kept.
C31_Witness ==
    /\ Constructed
    /\ lastCall.missing = {"mood"}
    /\ lastCall.before.mood.mood # "neutral"
    /\ moodFile.mood = "neutral"
    /\ blogCacheFile # <<>> /\ blogCacheFile = lastCall.before.cache
    /\ thoughtsFile.text # <<>>

(***************************************************************************)
(* Claims on the daily logs (SpecGather).                                  *)
(***************************************************************************)
\* C32: an append adds exactly one line to the log of its date: each step
\* that changes the daily log of a date raises get_log_count of that date
\* by one, so that n appends give a count of n.
C32_AppendAddsOneLine ==
    [][\A date \in Dates :
          analysis'.logs[date] # analysis.logs[date] =>
              GetLogCount(analysis', date).count =
                  GetLogCount(analysis, date).count + 1]_vars

(***************************************************************************)
(* Claims on the log routes (SpecLogs).                                    *)
(***************************************************************************)
UploadDone == syncResp.op = "upload_logs"

\* The entries of the request whose insert succeeded, and those of them
\* whose append succeeded too.
Inserted == {i \in 1..Len(syncResp.request) : i \notin syncResp.insertFails}
Accumulated == Inserted \ syncResp.appendFails

\* The lines the accumulated entries of a date have.
LinesFor(date) ==
    Cardinality({<<i, k>> \in (1..MaxLogBatch) \X (1..2) :
                    /\ i \in Accumulated
                    /\ DateStr(syncResp.request[i].timestamp \div 1000) = date
                    /\ k <= Len(syncResp.request[i].text)})

\* C33: upload_logs answers a batch of n entries with uploaded + failed = n,
\* uploaded being the number of entries whose insert succeeded whether or
\* not their append did; the status is success iff failed = 0, failed iff
\* uploaded = 0 and failed > 0, and partial otherwise; one event is stored
\* for each uploaded entry, and the daily logs grow by the entries that
\* were stored and appended and by nothing else.
C33_UploadCountsEveryEntry ==
    UploadDone =>
        LET n == Len(syncResp.request)
        IN  /\ syncResp.uploaded + syncResp.failed = n
            /\ syncResp.uploaded = Cardinality(Inserted)
            /\ (syncResp.status = "success") = (syncResp.failed = 0)
            /\ (syncResp.status = "failed") =
                  (syncResp.uploaded = 0 /\ syncResp.failed > 0)
            /\ syncResp.status \in {"success", "failed", "partial"}
            /\ Len(collection) = Len(storeBefore) + syncResp.uploaded
            /\ \A date \in Dates :
                  Len(analysis.logs[date]) =
                      Len(syncResp.tree.logs[date]) + LinesFor(date)

\* Of two entries the insert of the first failed and the append of the
\* second: one is uploaded, one failed, the status is partial and no daily
\* log has grown.
C33_Witness ==
    /\ UploadDone
    /\ Len(syncResp.request) = 2
    /\ syncResp.insertFails = {1} /\ syncResp.appendFails = {2}
    /\ syncResp.uploaded = 1 /\ syncResp.failed = 1
    /\ syncResp.status = "partial"
    /\ analysis.logs = syncResp.tree.logs
    /\ Len(collection) = Len(storeBefore) + 1

LogsSearched == syncResp.op = "search_logs"

\* A returned entry lies within the filters of the request.
WithinFilters(result) ==
    /\ syncResp.appPackage \in {<<>>, <<"">>}
          \/ <<result.appPackage>> = syncResp.appPackage
    /\ syncResp.timestamp_min = <<>>
          \/ result.timestamp >= syncResp.timestamp_min[1]
    /\ syncResp.timestamp_max = <<>>
          \/ result.timestamp <= syncResp.timestamp_max[1]

\* C34: search_logs answers with log entries, and only with entries of the
\* app package asked for whose timestamps lie between timestamp_min and
\* timestamp_max.
C34_SearchLogsHonoursFilters ==
    LogsSearched /\ syncResp.appPackage \notin {<<>>, <<"">>} =>
        /\ syncResp.status = 200
        /\ \A i \in 1..Len(syncResp.results) :
              WithinFilters(syncResp.results[i])

\* The documents stored by the last upload, one for each entry stored.
NewDocuments ==
    [k \in 1..(Len(collection) - Len(storeBefore)) |->
        collection[Len(storeBefore) + k]]

\* C36: the text embedded for an uploaded log holds its captured text: two
\* entries of one upload with different texts are stored as different
\* documents.
C36_EmbeddedTextHoldsCapturedText ==
    UploadDone =>
        \A i, j \in 1..Len(syncResp.stored) :
            syncResp.stored[i].text # syncResp.stored[j].text =>
                NewDocuments[i].text # NewDocuments[j].text

(***************************************************************************)
(* Claims on the timestamps of the stored events (SpecStamps).             *)
(***************************************************************************)
\* The value is an integer a clock or a client can give.
IsInteger(value) == ToString(value) \in {ToString(n) : n \in 0..(MaxTs + MaxClock)}

StoredUntimed ==
    /\ syncResp.op = "store" /\ syncResp.status = 201
    /\ "timestamp" \notin DOMAIN syncResp.request

\* C35: an event stored through memory.store without a timestamp has the
\* time of the server as its timestamp, and the timestamp of every stored
\* event is an integer.
C35_StoredTimestampsAreIntegers ==
    /\ StoredUntimed =>
          /\ IsInteger(collection[Len(collection)].timestamp)
          /\ collection[Len(collection)].timestamp = clock
    /\ \A i \in 1..Len(collection) : IsInteger(collection[i].timestamp)

(***************************************************************************)
(* Claims on the rate limit (SpecRate).                                    *)
(***************************************************************************)
\* The number of requests granted to a key at times in (from, to].
GrantedWithin(key, from, to) ==
    Cardinality({i \in 1..Len(limiter.granted[key]) :
                    /\ from < limiter.granted[key][i]
                    /\ limiter.granted[key][i] <= to})

RateAnswered == limiter.last.op = "request" /\ limiter.last.path \notin SkippedPaths

\* C37: of the requests of one key at most requests_per_minute are granted
\* at times that lie within a window of 60 seconds; a request that is
\* rejected is answered 429 and leaves of the list of its key what is newer
\* than the window and nothing else; and a request leaves the lists of the
\* other keys as they were.
C37_AtMostLimitPerWindow ==
    /\ \A key \in Keys, end \in 0..(MaxRateTime + RateWindow) :
          GrantedWithin(key, end - 60, end) <= RequestsPerMinute
    /\ RateAnswered =>
          /\ \A other \in Keys \ {limiter.last.key} :
                limiter.store[other] = limiter.last.before[other]
          /\ ~limiter.last.allowed =>
                /\ limiter.last.status = 429
                /\ limiter.store[limiter.last.key] =
                      SelectSeq(limiter.last.before[limiter.last.key],
                                LAMBDA t : t > limiter.last.now - 60)

\* A key is rejected after it was granted its requests in two windows,
\* while the other key has requests of its own in the store.
C37_Witness ==
    /\ RateAnswered
    /\ ~limiter.last.allowed
    /\ Len(limiter.granted[limiter.last.key]) > RequestsPerMinute
    /\ Len(limiter.store[limiter.last.key]) = RequestsPerMinute
    /\ \E other \in Keys \ {limiter.last.key} : limiter.store[other] # <<>>

(***************************************************************************)
(* Claims on the background task (SpecTask).                               *)
(***************************************************************************)
\* A run of the task has ended with an error.
RunFailed == "error" \in DOMAIN calls["task"] /\ calls["task"].error # "none"

\* C38: the task does not end on an error: after a run in which the fetch,
\* the read of the cache or the merge has raised, the task sleeps and a next
\* run begins, and runs begin again and again.
C38_NextRunAlwaysFollows ==
    /\ RunFailed ~> (TaskPc = "idle")
    /\ []<>(TaskPc = "idle")

\* A run begins after a run in which the merge raised, the cache holding a
\* post of a run before.
C38_Witness ==
    /\ TaskPc = "idle"
    /\ "after" \in DOMAIN calls["task"]
    /\ calls["task"].after = "merge"
    /\ blogCacheFile # <<>>

(***************************************************************************)
(* C39: a client that pulls again and again, and after each pull advances  *)
(* its cursor to the largest timestamp it has received, eventually has     *)
(* received every event stored on the server, whatever timestamps the      *)
(* pushes carry and however many events are stored between two pulls.      *)
(***************************************************************************)
StoredIds == {collection[i].id : i \in 1..Len(collection)}

C39_ClientReceivesEveryEvent == <>[](StoredIds \subseteq client.received)

====
